---- MODULE Spec2Model ----
(***************************************************************************)
(* Model of the capture paths of the KYC capture SDK:                      *)
(*   - FaceMeshService (services/index.ts): per-frame result processing    *)
(*     and the liveness state machine CENTER -> LEFT -> RIGHT -> DONE;     *)
(*   - useFaceScan (features/faceScan/hooks/useFaceScan.ts): the hook that *)
(*     owns the shared liveness state, starts the service, reports model   *)
(*     failure and captures/uploads the face image;                        *)
(*   - FaceScanModal: the capture button that calls handleFaceCapture,     *)
(*     and the Restart and Retry buttons;                                  *)
(*   - SimpleDocumentDetectionService                                      *)
(*     (services/simpleDocumentDetectionService.ts): the per-tick document *)
(*     detection, its stability counter and the auto-capture;              *)
(*   - the corner geometry of the document detectors: orderPoints,         *)
(*     calculateRectangularity and calculateQuality of                     *)
(*     SimpleDocumentDetectionService, and calculateQuality of             *)
(*     DocumentDetectionService (features/faceScan/hooks/useCamera.ts);    *)
(*   - the two frame loops (requestAnimationFrame tick of FaceMeshService, *)
(*     setInterval tick of SimpleDocumentDetectionService);                *)
(*   - the HTTP layer: ApiClient.request with retryRequest, and the        *)
(*     session check of KycApiService before an upload;                    *)
(*   - the renders of useFaceScan: a state update made by a service        *)
(*     callback is rendered later, and the effect that copies the rendered *)
(*     stage and ready flag into the refs runs later still (SpecRender).   *)
(*                                                                         *)
(* Numbers: yaw, absYaw and the normalised face width are kept in          *)
(* thousandths (0.05 is 50, 0.08 is 80); times are in milliseconds;        *)
(* coordinates are pixels, lengths tenths of a pixel, angles thousandths   *)
(* of a radian, scores ten-thousandths.                                    *)
(***************************************************************************)
EXTENDS Integers, Sequences, FiniteSets, TLC

VARIABLES
    livenessStateRef,   \* the LivenessState shared by the hook and the service
    refs,               \* LivenessRefs of the hook (useRef values)
    state,              \* FaceScanState of the hook (React state)
    service,            \* FaceMeshService instance: created, cancelled, faceMesh, tick
    effect,             \* locals of the hook's start effect: cancelled, initTimeoutId
    showRetryButton,    \* FaceScanModal state
    capturesInFlight,   \* handleFaceCapture calls suspended at an await
    now,                \* Date.now()
    emitted,            \* callbacks the service invoked during the last step
    captureTriggers,    \* number of onCaptureTrigger invocations so far
    captureCompletions, \* number of onFaceCaptureComplete invocations so far
    failureReports,     \* number of times the hook has set livenessFailed: true
    docTimers,          \* pending 500 ms timers that show the document step
    lastFaceAt,         \* time of the last frame that had a face (-1: none yet)
    script,             \* frames of the end-to-end script fed so far
    reloadPending,      \* the timer of window.location.reload() is set
    doc,                \* SimpleDocumentDetectionService instance (its fields)
    docCapture,         \* the correctPerspective call the service awaits, if any
    cooldownTimers,     \* due times of the pending post-capture timers
    docNow,             \* the clock of the document step
    docOut,             \* callbacks the document service invoked during the last step
    docLog,             \* what the last ticks of the document service did
    goodRun,            \* acceptable detections in a row, up to the last analysed frame
    autoCaptures,       \* number of onAutoCapture invocations so far
    geom,               \* one run of orderPoints and the scoring functions: arguments, results
    loops,              \* the two frame loops: callbacks scheduled, frames being processed
    http,               \* one call of the HTTP layer: requests sent, waits, how it settled
    render              \* the hook's last committed render and its pending sync effect

faceVars == <<livenessStateRef, refs, state, service, effect, showRetryButton,
              capturesInFlight, now, emitted, captureTriggers, captureCompletions,
              failureReports, docTimers, lastFaceAt, script, reloadPending>>

docVars == <<doc, docCapture, cooldownTimers, docNow, docOut, docLog, goodRun,
             autoCaptures>>

otherVars == <<geom, loops, http, render>>

vars == <<faceVars, docVars, otherVars>>

----------------------------------------------------------------------------
(* Bounds of the model *)

MaxCenterHold == 13      \* frames are fed while centerHold is below this
MaxNow == 12000          \* the clock stops here
MaxPending == 1          \* captures in flight or just finished when the button is pressed
Epoch0 == 3000           \* Date.now() when the component mounts
TimeStep == 8000         \* granularity of the clock

(* Inputs: the measurements processLiveness derives from one face: the     *)
(* yaw, and the face well placed, outside the guide circle or too far away *)
YawValues == {-200, 0, 50, 200}
Placements ==
    {[faceWidth |-> 200, inside |-> TRUE],
     [faceWidth |-> 200, inside |-> FALSE],
     [faceWidth |-> 50, inside |-> TRUE]}

----------------------------------------------------------------------------
(* Program constants *)

centerThreshold == 50          \* 0.05
leftThreshold == 80            \* 0.08
rightThreshold == 80           \* 0.08
holdFramesCenter == 12
holdFramesTurn == 12
reducedThreshold == 80         \* 0.08, DONE stage
minFaceWidth == 80             \* 0.08, "Move closer to the camera"
noFaceGrace == 2000            \* ms without a face result
initTimeout == 8000            \* ms
captureCenterThreshold == 50   \* 0.05 in handleFaceCapture

Null == <<>>
Some(v) == <<v>>
Abs(x) == IF x < 0 THEN -x ELSE x

Update(stage, instruction) ==
    [cb |-> "onLivenessUpdate", stage |-> stage, instruction |-> instruction]
Trigger == [cb |-> "onCaptureTrigger", stage |-> "DONE", instruction |-> ""]

----------------------------------------------------------------------------
(* FaceMeshService.processLiveness, one branch per stage.  Each branch     *)
(* takes the liveness state s and the measurements of the frame and        *)
(* returns the new state and the callbacks invoked, in order.              *)

Res(s, out) == [s |-> s, out |-> out]

(* CenterBranch with the hold compared by > instead of >= *)
CenterBranch_OffByOne(s, yaw, absYaw, insideGuide) ==
    IF ~insideGuide
    THEN Res(s, <<Update(s.stage, "Center your face inside the circle")>>)
    ELSE IF absYaw < centerThreshold
    THEN LET h == s.centerHold + 1 IN
         IF h > holdFramesCenter /\ ~s.livenessCompleted
         THEN Res([s EXCEPT !.stage = "LEFT", !.centerHold = 0],
                  <<Update("LEFT", "Turn your face LEFT")>>)
         ELSE Res([s EXCEPT !.centerHold = h], <<>>)
    ELSE Res([s EXCEPT !.centerHold = 0],
             <<Update(s.stage, IF yaw > 0 THEN "Move your face slightly LEFT"
                                          ELSE "Move your face slightly RIGHT")>>)

(* CenterBranch without the livenessCompleted guard *)
CenterBranch_NoCompletedGuard(s, yaw, absYaw, insideGuide) ==
    IF ~insideGuide
    THEN Res(s, <<Update(s.stage, "Center your face inside the circle")>>)
    ELSE IF absYaw < centerThreshold
    THEN LET h == s.centerHold + 1 IN
         IF h >= holdFramesCenter
         THEN Res([s EXCEPT !.stage = "LEFT", !.centerHold = 0],
                  <<Update("LEFT", "Turn your face LEFT")>>)
         ELSE Res([s EXCEPT !.centerHold = h], <<>>)
    ELSE Res([s EXCEPT !.centerHold = 0],
             <<Update(s.stage, IF yaw > 0 THEN "Move your face slightly LEFT"
                                          ELSE "Move your face slightly RIGHT")>>)

CenterBranch(s, yaw, absYaw, insideGuide) ==
    IF ~insideGuide
    THEN Res(s, <<Update(s.stage, "Center your face inside the circle")>>)
    ELSE IF absYaw < centerThreshold
    THEN LET h == s.centerHold + 1 IN
         IF h >= holdFramesCenter /\ ~s.livenessCompleted
         THEN Res([s EXCEPT !.stage = "LEFT", !.centerHold = 0],
                  <<Update("LEFT", "Turn your face LEFT")>>)
         ELSE Res([s EXCEPT !.centerHold = h], <<>>)
    ELSE Res([s EXCEPT !.centerHold = 0],
             <<Update(s.stage, IF yaw > 0 THEN "Move your face slightly LEFT"
                                          ELSE "Move your face slightly RIGHT")>>)

(* LeftBranch leaving the stage without resetting its hold counter *)
LeftBranch_KeepsHold(s, yaw, faceWidth) ==
    IF faceWidth < minFaceWidth
    THEN Res(s, <<Update(s.stage, "Move closer to the camera")>>)
    ELSE IF yaw < -leftThreshold
    THEN LET h == s.leftHold + 1 IN
         IF h >= holdFramesTurn
         THEN Res([s EXCEPT !.stage = "RIGHT", !.leftHold = h],
                  <<Update("RIGHT", "Great! Now turn your face RIGHT")>>)
         ELSE Res([s EXCEPT !.leftHold = h], <<>>)
    ELSE Res([s EXCEPT !.leftHold = 0],
             <<Update(s.stage, IF yaw > rightThreshold
                               THEN "You're facing right. Turn LEFT"
                               ELSE "Turn a bit more LEFT")>>)

LeftBranch(s, yaw, faceWidth) ==
    IF faceWidth < minFaceWidth
    THEN Res(s, <<Update(s.stage, "Move closer to the camera")>>)
    ELSE IF yaw < -leftThreshold
    THEN LET h == s.leftHold + 1 IN
         IF h >= holdFramesTurn
         THEN Res([s EXCEPT !.stage = "RIGHT", !.leftHold = 0],
                  <<Update("RIGHT", "Great! Now turn your face RIGHT")>>)
         ELSE Res([s EXCEPT !.leftHold = h], <<>>)
    ELSE Res([s EXCEPT !.leftHold = 0],
             <<Update(s.stage, IF yaw > rightThreshold
                               THEN "You're facing right. Turn LEFT"
                               ELSE "Turn a bit more LEFT")>>)

RightBranch(s, yaw, faceWidth) ==
    IF faceWidth < minFaceWidth
    THEN Res(s, <<Update(s.stage, "Move closer to the camera")>>)
    ELSE IF yaw > rightThreshold
    THEN LET h == s.rightHold + 1 IN
         IF h >= holdFramesTurn
         THEN Res([s EXCEPT !.rightHold = 0, !.livenessCompleted = TRUE,
                            !.stage = "DONE", !.centerHold = 0],
                  <<Update("DONE", "Great! Now look straight at the camera")>>)
         ELSE Res([s EXCEPT !.rightHold = h], <<>>)
    ELSE Res([s EXCEPT !.rightHold = 0],
             <<Update(s.stage, IF yaw < -leftThreshold
                               THEN "You're facing left. Turn RIGHT"
                               ELSE "Turn a bit more RIGHT")>>)

(* DoneBranch firing on the first centred frame, without the hold *)
DoneBranch_NoHold(s, absYaw) ==
    IF absYaw < reducedThreshold
    THEN LET h == s.centerHold + 1 IN
         IF ~s.snapTriggered
         THEN Res([s EXCEPT !.centerHold = h, !.snapTriggered = TRUE],
                  <<Update(s.stage, "Capturing..."), Trigger>>)
         ELSE Res([s EXCEPT !.centerHold = h], <<>>)
    ELSE Res([s EXCEPT !.centerHold = 0],
             <<Update(s.stage, "Please look straight at the camera")>>)

(* DoneBranch without the snapTriggered check *)
DoneBranch_Refire(s, absYaw) ==
    IF absYaw < reducedThreshold
    THEN LET h == s.centerHold + 1 IN
         IF h >= holdFramesCenter
         THEN Res([s EXCEPT !.centerHold = h, !.snapTriggered = TRUE],
                  <<Update(s.stage, "Capturing..."), Trigger>>)
         ELSE Res([s EXCEPT !.centerHold = h], <<>>)
    ELSE Res([s EXCEPT !.centerHold = 0],
             <<Update(s.stage, "Please look straight at the camera")>>)

DoneBranch(s, absYaw) ==
    IF absYaw < reducedThreshold
    THEN LET h == s.centerHold + 1 IN
         IF h >= holdFramesCenter /\ ~s.snapTriggered
         THEN Res([s EXCEPT !.centerHold = h, !.snapTriggered = TRUE],
                  <<Update(s.stage, "Capturing..."), Trigger>>)
         ELSE Res([s EXCEPT !.centerHold = h], <<>>)
    ELSE Res([s EXCEPT !.centerHold = 0],
             <<Update(s.stage, "Please look straight at the camera")>>)

(* processLiveness: store the orientation, mark the state ready, then the  *)
(* branch of the current stage (SNAP has no branch).                       *)
ProcessLiveness(s0, yaw, faceWidth, insideGuide) ==
    LET absYaw == Abs(yaw)
        s == [s0 EXCEPT !.currentYaw = Some(yaw), !.currentAbsYaw = Some(absYaw),
                        !.livenessReady = TRUE]
    IN  CASE s.stage = "CENTER" -> CenterBranch(s, yaw, absYaw, insideGuide)
          [] s.stage = "LEFT"   -> LeftBranch(s, yaw, faceWidth)
          [] s.stage = "RIGHT"  -> RightBranch(s, yaw, faceWidth)
          [] s.stage = "DONE"   -> DoneBranch(s, absYaw)
          [] OTHER              -> Res(s, <<>>)

(* processResults, no-face branch: the orientation is cleared and the      *)
(* instruction is emitted once the last face result is old enough.         *)
NoFaceResult(s, t) ==
    Res([s EXCEPT !.currentYaw = Null, !.currentAbsYaw = Null],
        IF t - s.lastResultsAt > noFaceGrace
        THEN <<Update(s.stage,
                 "No face detected. Center your face in frame with good lighting.")>>
        ELSE <<>>)

(* processResults: f is the result of one frame *)
ProcessResults(s, f, t) ==
    IF f.face
    THEN ProcessLiveness([s EXCEPT !.lastResultsAt = t], f.yaw, f.faceWidth, f.inside)
    ELSE NoFaceResult(s, t)

----------------------------------------------------------------------------
(* useFaceScan.  The handlers below act on a record w of the values the    *)
(* hook and the modal own:                                                 *)
(*   ls (livenessStateRef.current), refs, state, showRetry, inflight,      *)
(*   reports.                                                              *)

(* The video element is rendered unless the modal shows the document step *)
VideoMounted(st) == ~st.showDocumentUpload

(* useEffect(..., [state.livenessStage, state.livenessReady]): copy the    *)
(* refs and the rendered stage into the shared liveness state.             *)
SyncEffect(w) ==
    [w EXCEPT !.ls.centerHold = w.refs.centerHold,
              !.ls.leftHold = w.refs.leftHold,
              !.ls.rightHold = w.refs.rightHold,
              !.ls.snapTriggered = w.refs.snapTriggered,
              !.ls.lastResultsAt = w.refs.lastResultsAt,
              !.ls.stage = w.state.livenessStage,
              !.ls.livenessReady = w.state.livenessReady,
              !.refs.livenessStage = w.state.livenessStage]

(* React commits a state update and runs the effects whose dependencies    *)
(* changed; old is the state of the previous render.                       *)
Commit(w, old) ==
    IF w.state.livenessStage # old.livenessStage
         \/ w.state.livenessReady # old.livenessReady
    THEN SyncEffect(w)
    ELSE w

(* what onLivenessUpdate of the hook assigns *)
LivenessUpdate(w, stage, instruction) ==
    [w EXCEPT !.state.livenessStage = stage,
              !.state.livenessInstruction = instruction,
              !.state.livenessReady = TRUE,
              !.ls.stage = stage,
              !.refs.livenessStage = stage,
              !.refs.centerHold = w.ls.centerHold,
              !.refs.leftHold = w.ls.leftHold,
              !.refs.rightHold = w.ls.rightHold,
              !.refs.snapTriggered = w.ls.snapTriggered]

(* onLivenessUpdate of the hook, the render it causes committed at once *)
OnLivenessUpdate(w, cancelled, stage, instruction) ==
    IF cancelled THEN w
    ELSE Commit(LivenessUpdate(w, stage, instruction), w.state)

(* handleFaceCapture without the check of absYaw against the threshold *)
HandleFaceCapture_NoYawCheck(w) ==
    IF ~VideoMounted(w.state) THEN w
    ELSE IF w.ls.currentAbsYaw = Null
    THEN [w EXCEPT !.state.livenessInstruction =
                       "Please position your face in front of the camera"]
    ELSE [w EXCEPT !.state.loading = TRUE,
                   !.inflight = w.inflight + 1]

(* handleFaceCapture up to its first await: the request is validated       *)
(* against the stored absYaw, then the frame is drawn and encoded.         *)
HandleFaceCapture(w) ==
    IF ~VideoMounted(w.state) THEN w
    ELSE IF w.ls.currentAbsYaw = Null
    THEN [w EXCEPT !.state.livenessInstruction =
                       "Please position your face in front of the camera"]
    ELSE IF w.ls.currentAbsYaw[1] >= captureCenterThreshold
    THEN [w EXCEPT !.state.livenessInstruction =
                       "Please look straight at the camera before capturing"]
    ELSE [w EXCEPT !.state.loading = TRUE,
                   !.inflight = w.inflight + 1]

(* onCaptureTrigger of the hook *)
OnCaptureTrigger(w, cancelled) ==
    IF cancelled THEN w ELSE HandleFaceCapture(w)

(* The callbacks of one processed frame, delivered in order *)
RECURSIVE Deliver(_, _, _)
Deliver(w, cancelled, out) ==
    IF out = <<>> THEN w
    ELSE LET c == Head(out)
             w1 == IF c.cb = "onLivenessUpdate"
                   THEN OnLivenessUpdate(w, cancelled, c.stage, c.instruction)
                   ELSE OnCaptureTrigger(w, cancelled)
         IN  Deliver(w1, cancelled, Tail(out))

(* handleFaceCapture after the image is encoded: upload, then the result  *)
CaptureOutcomes == {"uploaded", "upload_failed", "already_registered"}

(* FinishCapture taking a failed upload for a capture *)
FinishCapture_FailureCompletes(w, outcome) ==
    LET w1 == [w EXCEPT !.inflight = w.inflight - 1]
    IN  CASE outcome \in {"uploaded", "upload_failed"} ->
               [w1 EXCEPT !.state.capturedImage = TRUE,
                          !.state.allStepsCompleted = TRUE,
                          !.state.livenessInstruction =
                              "Face captured and uploaded successfully!",
                          !.state.loading = FALSE]
          [] outcome = "already_registered" ->
               [w1 EXCEPT !.showRetry = TRUE,
                          !.state.allStepsCompleted = FALSE,
                          !.state.showDocumentUpload = FALSE,
                          !.state.livenessInstruction = "FACE_ALREADY_REGISTERED",
                          !.state.loading = FALSE]

FinishCapture(w, outcome) ==
    LET w1 == [w EXCEPT !.inflight = w.inflight - 1]
    IN  CASE outcome = "uploaded" ->
               [w1 EXCEPT !.state.capturedImage = TRUE,
                          !.state.allStepsCompleted = TRUE,
                          !.state.livenessInstruction =
                              "Face captured and uploaded successfully!",
                          !.state.loading = FALSE]
          [] outcome = "upload_failed" ->
               [w1 EXCEPT !.state.livenessInstruction = "Failed to upload face scan",
                          !.state.loading = FALSE]
          [] outcome = "already_registered" ->
               [w1 EXCEPT !.showRetry = TRUE,
                          !.state.allStepsCompleted = FALSE,
                          !.state.showDocumentUpload = FALSE,
                          !.state.livenessInstruction = "FACE_ALREADY_REGISTERED",
                          !.state.loading = FALSE]

(* FaceScanModal: the capture button is enabled *)
CaptureButtonEnabled(st, retry) ==
    st.cameraReady /\ ~st.loading
      /\ (st.livenessFailed \/ st.livenessStage = "DONE") /\ ~retry

(* Model-initialisation failure: the three places that report it set the  *)
(* same fields; only onModelFailed and the catch clear modelLoaded.        *)
ReportFailure(w, clearLoaded) ==
    [w EXCEPT !.state.livenessFailed = TRUE,
              !.state.modelLoading = FALSE,
              !.state.modelLoaded = IF clearLoaded THEN FALSE ELSE w.state.modelLoaded,
              !.refs.livenessFailed = TRUE,
              !.reports = w.reports + 1]

(* onModelLoaded / onModelFailed of the hook *)
OnModelLoaded(w, cancelled) ==
    IF cancelled THEN w
    ELSE [w EXCEPT !.state.modelLoaded = TRUE,
                   !.state.modelLoading = FALSE,
                   !.refs.modelLoaded = TRUE]

OnModelFailed(w, cancelled) ==
    IF cancelled THEN w ELSE ReportFailure(w, TRUE)

(* catch (e) in start(), after initialize() has rejected *)
StartCatch(w, cancelled) ==
    IF ~cancelled /\ w.refs.livenessFailed = FALSE
    THEN ReportFailure(w, TRUE)
    ELSE w

(* the timer callback without the check of refs.livenessFailed *)
InitTimeoutCallback_IgnoresFailed(w, cancelled) ==
    IF ~cancelled /\ ~w.refs.modelLoaded
    THEN ReportFailure(w, FALSE)
    ELSE w

(* the callback of the 8 s timer *)
InitTimeoutCallback(w, cancelled) ==
    IF ~cancelled /\ ~w.refs.modelLoaded /\ ~w.refs.livenessFailed
    THEN ReportFailure(w, FALSE)
    ELSE w

(* FaceMeshService.initialize as start() awaits it.  outcome: "loaded"     *)
(* (the FaceMesh is constructed and onModelLoaded is called) or "throws"   *)
(* (the constructor or setOptions throws: the catch of initialize calls    *)
(* onModelFailed and rethrows into the catch of start).                    *)
InitOutcomes == {"loaded", "throws"}

Initialize(w, cancelled, outcome) ==
    CASE outcome = "loaded" -> OnModelLoaded(w, cancelled)
      [] outcome = "throws" -> StartCatch(OnModelFailed(w, cancelled), cancelled)

----------------------------------------------------------------------------
(* The document path: SimpleDocumentDetectionService                       *)
(* (services/simpleDocumentDetectionService.ts).  Quality and              *)
(* rectangularity scores are kept in ten-thousandths (0.3 is 3000).        *)

(* Bounds of the document model *)
MaxGoodFrames == 7       \* detections are fed while the good-frame counter is below this
MaxDocNow == 6000        \* the clock of the document step stops here
DocTimeStep == 3000      \* granularity of that clock

(* Program constants of the service *)
maxHistory == 5
frameSkipCount == 2
acceptQuality == 3000          \* quality > 0.3 counts the frame
decentQuality == 5000          \* quality > 0.5: 4 frames are enough, and capture allowed
framesDecent == 4
framesLow == 6
captureFrames == 5             \* stableFrames >= 5
minRectangularity == 5000      \* calculateRectangularity(...) > 0.5
captureCooldown == 3000        \* ms before the capture lock is released

Min(a, b) == IF a < b THEN a ELSE b
Max(a, b) == IF a > b THEN a ELSE b

(* Fields of a freshly constructed service.  onAutoCapture says whether    *)
(* the caller passed that callback; raf is processingRef.current, the      *)
(* scheduled animation frame.                                              *)
InitialDoc(onAutoCapture) ==
    [cancelled |-> FALSE, stableFrames |-> 0, lastCorners |-> Null,
     cornerHistory |-> <<>>, frameSkip |-> 0, captureTriggered |-> FALSE,
     smoothedCorners |-> Null, consecutiveGoodFrames |-> 0,
     onAutoCapture |-> onAutoCapture, raf |-> FALSE]

(* no service has been constructed *)
NoService == [cancelled |-> TRUE]

----------------------------------------------------------------------------
(* State *)

InitialLiveness ==
    [centerHold |-> 0, leftHold |-> 0, rightHold |-> 0, snapTriggered |-> FALSE,
     lastResultsAt |-> 0, stage |-> "CENTER", livenessReady |-> FALSE,
     currentYaw |-> Null, currentAbsYaw |-> Null, livenessCompleted |-> FALSE]

InitialRefs ==
    [centerHold |-> 0, leftHold |-> 0, rightHold |-> 0, snapTriggered |-> FALSE,
     lastResultsAt |-> 0, livenessStage |-> "CENTER", modelLoaded |-> FALSE,
     livenessFailed |-> FALSE]

InitialState ==
    [cameraReady |-> FALSE, livenessStage |-> "CENTER", livenessReady |-> FALSE,
     livenessFailed |-> FALSE, modelLoading |-> TRUE, modelLoaded |-> FALSE,
     livenessInstruction |-> "Look straight at the camera", loading |-> FALSE,
     allStepsCompleted |-> FALSE, capturedImage |-> FALSE,
     showDocumentUpload |-> FALSE]

World ==
    [ls |-> livenessStateRef, refs |-> refs, state |-> state,
     showRetry |-> showRetryButton, inflight |-> capturesInFlight,
     reports |-> failureReports]

(* the hook's values after a handler has produced w *)
Becomes(w) ==
    /\ livenessStateRef' = w.ls
    /\ refs' = w.refs
    /\ state' = w.state
    /\ showRetryButton' = w.showRetry
    /\ capturesInFlight' = w.inflight
    /\ failureReports' = w.reports

NoTimer == -1

(* the capture paths after the modal has mounted *)
InitCapture ==
    /\ livenessStateRef = InitialLiveness
    /\ refs = InitialRefs
    /\ state = InitialState
    /\ service = [created |-> FALSE, cancelled |-> FALSE, faceMesh |-> FALSE,
                  tick |-> FALSE]
    /\ effect = [started |-> FALSE, cancelled |-> FALSE, initTimeoutAt |-> NoTimer]
    /\ showRetryButton = FALSE
    /\ capturesInFlight = 0
    /\ now = Epoch0
    /\ emitted = <<>>
    /\ captureTriggers = 0
    /\ captureCompletions = 0
    /\ failureReports = 0
    /\ docTimers = 0
    /\ lastFaceAt = -1
    /\ script = 0
    /\ reloadPending = FALSE
    /\ doc = NoService
    /\ docCapture = Null
    /\ cooldownTimers = {}
    /\ docNow = 0
    /\ docOut = <<>>
    /\ docLog = <<>>
    /\ goodRun = 0
    /\ autoCaptures = 0

(* nothing has been handed to orderPoints, no loop runs, no request made *)
NoGeometry == [points |-> <<>>]
NoLoops ==
    [face |-> "none", raf |-> 0, sends |-> 0, cancelled |-> FALSE, faceMesh |-> FALSE]
NoCall == [call |-> "none"]

(* the first render is committed and its effects have run *)
FirstRender == [deps |-> <<"CENTER", FALSE>>, effect |-> Null]

Init ==
    /\ InitCapture
    /\ geom = NoGeometry
    /\ loops = NoLoops
    /\ http = NoCall
    /\ render = FirstRender

----------------------------------------------------------------------------
(* Inputs of a frame: no face, or the measurements of the primary face *)

NoFace == [face |-> FALSE, yaw |-> 0, faceWidth |-> 0, inside |-> FALSE]
Frames ==
    {NoFace} \cup {[face |-> TRUE, yaw |-> y, faceWidth |-> p.faceWidth,
                    inside |-> p.inside] : y \in YawValues, p \in Placements}

(* the frame meets the requirement of the stage it is processed in *)
MeetsStage(stage, f) ==
    /\ f.face
    /\ CASE stage = "CENTER" -> f.inside /\ Abs(f.yaw) < centerThreshold
         [] stage = "LEFT"   -> f.faceWidth >= minFaceWidth /\ f.yaw < -leftThreshold
         [] stage = "RIGHT"  -> f.faceWidth >= minFaceWidth /\ f.yaw > rightThreshold
         [] stage = "DONE"   -> Abs(f.yaw) < reducedThreshold
         [] OTHER            -> FALSE

(* The end-to-end script: 12 frames that hold the centre, 12 turned left   *)
(* (yaw -0.2), 12 turned right (yaw 0.2), 12 centred (yaw 0); adequate     *)
(* face width throughout.                                                  *)
CenterEnd == holdFramesCenter
LeftEnd == CenterEnd + holdFramesTurn
RightEnd == LeftEnd + holdFramesTurn
ScriptLen == RightEnd + holdFramesCenter
OnScript(i, f) ==
    /\ f.face
    /\ f.faceWidth >= minFaceWidth
    /\ IF i <= CenterEnd THEN f.inside /\ f.yaw = 0
       ELSE f.yaw = (IF i <= LeftEnd THEN -200 ELSE IF i <= RightEnd THEN 200 ELSE 0)

----------------------------------------------------------------------------
(* Actions *)

(* The camera becomes ready: the modal copies cameraReady into the state,  *)
(* the start effect of the hook arms the 8 s timer, creates the service    *)
(* and awaits initialize().                                                *)
StartFaceMesh(outcome) ==
    /\ ~effect.started
    /\ LET w0 == [World EXCEPT !.state.cameraReady = TRUE]
           w == Initialize(w0, effect.cancelled, outcome)
       IN  Becomes(w)
    /\ effect' = [effect EXCEPT !.started = TRUE, !.initTimeoutAt = now + initTimeout]
    /\ service' = [created |-> TRUE, cancelled |-> FALSE,
                   faceMesh |-> (outcome = "loaded"), tick |-> (outcome = "loaded")]
    /\ emitted' = <<>>
    /\ UNCHANGED <<now, captureTriggers, captureCompletions, docTimers, lastFaceAt, script>>
    /\ UNCHANGED <<docVars, otherVars, reloadPending>>

(* The 8 s timer fires *)
InitTimeout ==
    /\ effect.initTimeoutAt # NoTimer
    /\ now >= effect.initTimeoutAt
    /\ Becomes(InitTimeoutCallback(World, effect.cancelled))
    /\ effect' = [effect EXCEPT !.initTimeoutAt = NoTimer]
    /\ emitted' = <<>>
    /\ UNCHANGED <<service, now, captureTriggers, captureCompletions,
                   docTimers, lastFaceAt, script>>
    /\ UNCHANGED <<docVars, otherVars, reloadPending>>

(* One tick of the service: faceMesh.send delivers the result f of the     *)
(* frame to processResults, whose callbacks run in the hook.               *)
Tick(f) ==
    /\ service.tick /\ ~service.cancelled /\ service.faceMesh
    /\ VideoMounted(state)
    /\ livenessStateRef.centerHold < MaxCenterHold
    /\ LET r == ProcessResults(livenessStateRef, f, now)
           w == Deliver([World EXCEPT !.ls = r.s], effect.cancelled, r.out)
           fired == Cardinality({i \in DOMAIN r.out : r.out[i].cb = "onCaptureTrigger"})
       IN  /\ Becomes(w)
           /\ emitted' = r.out
           /\ captureTriggers' = captureTriggers + fired
           /\ lastFaceAt' = IF f.face THEN now ELSE lastFaceAt
    /\ UNCHANGED <<service, effect, now, docTimers, captureCompletions>>
    /\ UNCHANGED <<docVars, otherVars, reloadPending>>

(* a frame with any result *)
FaceFrame(f) ==
    /\ Tick(f)
    /\ UNCHANGED script

(* the next frame of the end-to-end script *)
FeedScript(f) ==
    /\ script < ScriptLen
    /\ OnScript(script + 1, f)
    /\ Tick(f)
    /\ script' = script + 1

(* The user presses the capture button *)
ManualCapture ==
    /\ CaptureButtonEnabled(state, showRetryButton)
    /\ capturesInFlight + docTimers < MaxPending
    /\ Becomes(HandleFaceCapture(World))
    /\ emitted' = <<>>
    /\ UNCHANGED <<service, effect, now, captureTriggers, captureCompletions,
                   docTimers, lastFaceAt, script>>
    /\ UNCHANGED <<docVars, otherVars, reloadPending>>

(* A capture in flight ends: uploaded (the state is updated,               *)
(* onFaceCaptureComplete called and the 500 ms timer set), or the upload   *)
(* failed                                                                  *)
CaptureDone(outcome) ==
    /\ capturesInFlight > 0
    /\ Becomes(FinishCapture(World, outcome))
    /\ captureCompletions' = captureCompletions + (IF outcome = "uploaded" THEN 1 ELSE 0)
    /\ docTimers' = docTimers + (IF outcome = "uploaded" THEN 1 ELSE 0)
    /\ emitted' = <<>>
    /\ UNCHANGED <<service, effect, now, captureTriggers, lastFaceAt, script>>
    /\ UNCHANGED <<docVars, otherVars, reloadPending>>

(* The 500 ms timer set after a capture shows the document step *)
ShowDocumentUpload ==
    /\ docTimers > 0
    /\ docTimers' = docTimers - 1
    /\ state' = [state EXCEPT !.showDocumentUpload = TRUE]
    /\ emitted' = <<>>
    /\ UNCHANGED <<livenessStateRef, refs, service, effect, showRetryButton,
                   capturesInFlight, now, captureTriggers, captureCompletions,
                   failureReports, lastFaceAt, script>>
    /\ UNCHANGED <<docVars, otherVars, reloadPending>>

(* FaceMeshService.cleanup *)
FaceCleanup(s) == [s EXCEPT !.cancelled = TRUE, !.tick = FALSE, !.faceMesh = FALSE]

(* The component unmounts: the cleanup of the start effect *)
EffectCleanup ==
    /\ effect.started /\ ~effect.cancelled
    /\ effect' = [effect EXCEPT !.cancelled = TRUE, !.initTimeoutAt = NoTimer]
    /\ service' = FaceCleanup(service)
    /\ emitted' = <<>>
    /\ UNCHANGED <<livenessStateRef, refs, state, showRetryButton, capturesInFlight,
                   now, captureTriggers, captureCompletions,
                   failureReports, docTimers, lastFaceAt, script>>
    /\ UNCHANGED <<docVars, otherVars, reloadPending>>

(* Time passes *)
AdvanceTime ==
    /\ now + TimeStep <= MaxNow
    /\ now' = now + TimeStep
    /\ emitted' = <<>>
    /\ UNCHANGED <<livenessStateRef, refs, state, service, effect, showRetryButton,
                   capturesInFlight, captureTriggers, captureCompletions,
                   failureReports, docTimers,
                   lastFaceAt, script>>
    /\ UNCHANGED <<docVars, otherVars, reloadPending>>

Next ==
    \/ \E outcome \in InitOutcomes : StartFaceMesh(outcome)
    \/ InitTimeout
    \/ \E f \in Frames : FaceFrame(f)
    \/ ManualCapture
    \/ \E outcome \in CaptureOutcomes : CaptureDone(outcome)
    \/ ShowDocumentUpload
    \/ EffectCleanup
    \/ AdvanceTime

Spec == Init /\ [][Next]_vars

(* The end-to-end scenario: the frames of the script and nothing else are  *)
(* fed to the service; timers, time and the capture it starts run freely.  *)
NextScript ==
    \/ \E outcome \in InitOutcomes : StartFaceMesh(outcome)
    \/ InitTimeout
    \/ \E f \in Frames : FeedScript(f)
    \/ \E outcome \in CaptureOutcomes : CaptureDone(outcome)
    \/ ShowDocumentUpload
    \/ AdvanceTime

SpecScript == Init /\ [][NextScript]_vars

----------------------------------------------------------------------------
(* Restart and retry (FaceScanModal) *)

(* what handleRestart and handleRetry assign: the React state to its       *)
(* initial value and seven of the refs                                     *)
ModalReset(w) ==
    [w EXCEPT !.state = InitialState,
              !.refs.centerHold = 0,
              !.refs.leftHold = 0,
              !.refs.rightHold = 0,
              !.refs.snapTriggered = FALSE,
              !.refs.lastResultsAt = 0,
              !.refs.modelLoaded = FALSE,
              !.refs.livenessFailed = FALSE]

(* The reset of handleRestart / handleRetry is committed: stopCamera() and *)
(* the new state make cameraReady false, so the cleanup of the start       *)
(* effect runs, and the sync effect runs if its dependencies changed; the  *)
(* timer of the page reload is set.                                        *)
ResetAndScheduleReload(w) ==
    /\ Becomes(Commit(ModalReset(w), state))
    /\ effect' = [effect EXCEPT !.cancelled = TRUE, !.initTimeoutAt = NoTimer]
    /\ service' = FaceCleanup(service)
    /\ reloadPending' = TRUE
    /\ emitted' = <<>>
    /\ UNCHANGED <<now, captureTriggers, captureCompletions, docTimers, lastFaceAt, script>>
    /\ UNCHANGED <<docVars, otherVars>>

(* The user presses Restart *)
HandleRestart ==
    /\ VideoMounted(state)
    /\ ~state.loading
    /\ effect.started /\ ~effect.cancelled
    /\ ~reloadPending
    /\ ResetAndScheduleReload(World)

RetryOutcomes == {"retried", "retry_failed"}

(* The user presses Retry Face Registration; retrySession() succeeds or    *)
(* fails                                                                   *)
HandleRetry(outcome) ==
    /\ VideoMounted(state)
    /\ showRetryButton
    /\ ~state.loading
    /\ effect.started /\ ~effect.cancelled
    /\ ~reloadPending
    /\ IF outcome = "retried"
       THEN ResetAndScheduleReload([World EXCEPT !.showRetry = FALSE])
       ELSE /\ showRetryButton' = TRUE
            /\ emitted' = <<>>
            /\ UNCHANGED <<livenessStateRef, refs, state, service, effect,
                           capturesInFlight, now, captureTriggers, captureCompletions,
                           failureReports,
                           docTimers, lastFaceAt, script, reloadPending>>
            /\ UNCHANGED <<docVars, otherVars>>

(* window.location.reload(): the page and with it the component start anew *)
Reload ==
    /\ reloadPending
    /\ livenessStateRef' = InitialLiveness
    /\ refs' = InitialRefs
    /\ state' = InitialState
    /\ service' = [created |-> FALSE, cancelled |-> FALSE, faceMesh |-> FALSE,
                   tick |-> FALSE]
    /\ effect' = [started |-> FALSE, cancelled |-> FALSE, initTimeoutAt |-> NoTimer]
    /\ showRetryButton' = FALSE
    /\ capturesInFlight' = 0
    /\ emitted' = <<>>
    /\ captureTriggers' = 0
    /\ captureCompletions' = 0
    /\ failureReports' = 0
    /\ docTimers' = 0
    /\ lastFaceAt' = -1
    /\ reloadPending' = FALSE
    /\ UNCHANGED <<now, script>>
    /\ UNCHANGED <<docVars, otherVars>>

(* The face scan with its Restart and Retry buttons *)
NextRestart ==
    \/ \E outcome \in InitOutcomes : StartFaceMesh(outcome)
    \/ InitTimeout
    \/ \E f \in Frames : FaceFrame(f)
    \/ ManualCapture
    \/ \E outcome \in CaptureOutcomes : CaptureDone(outcome)
    \/ ShowDocumentUpload
    \/ EffectCleanup
    \/ AdvanceTime
    \/ HandleRestart
    \/ \E outcome \in RetryOutcomes : HandleRetry(outcome)
    \/ Reload

SpecRestart == Init /\ [][NextRestart]_vars

----------------------------------------------------------------------------
(* SimpleDocumentDetectionService                                          *)

(* What one tick finds: the video has no frame yet, or the frame was       *)
(* analysed and findDocumentContour found no quadrilateral, or it found    *)
(* one.  The corners are named; the measurements calculateQuality and      *)
(* calculateRectangularity take of them come with the name: "A" lies well  *)
(* inside the frame, "B" reaches outside the frame, "C" is a skewed shape  *)
(* close to the edge of the frame.                                         *)
NotReady ==
    [ready |-> FALSE, corners |-> Null, bounds |-> "in", aspectOk |-> TRUE,
     angleOk |-> TRUE, area |-> "good", rectangularity |-> 0]
NoDocument == [NotReady EXCEPT !.ready = TRUE]
Document(c, bounds, rect) ==
    [NoDocument EXCEPT !.corners = Some(c), !.bounds = bounds, !.rectangularity = rect]
Detections ==
    {NoDocument, Document("A", "in", 9000), Document("B", "out", 9000),
     Document("C", "edge", 4000)}
TickInputs == {NotReady} \cup Detections

(* calculateQuality returning -1 for corners outside the frame *)
CalculateQuality_Sentinel(f) ==
    IF f.bounds = "out" THEN -10000
    ELSE LET baseScore == IF f.bounds = "in" THEN 6000 ELSE 5000
             aspectScore == IF f.aspectOk THEN 10000 ELSE 8000
             areaScore == CASE f.area = "good" -> 10000
                            [] f.area = "fair" -> 9000
                            [] OTHER -> 7000
             angleScore == IF f.angleOk THEN 10000 ELSE 8000
             finalScore == (baseScore * 50 + aspectScore * 20 + angleScore * 15
                            + areaScore * 15) \div 100
         IN  Max(5000, Min(10000, finalScore))

(* calculateQuality: 0.3 when a corner is outside the frame, otherwise the *)
(* weighted score clamped to [0.5, 1]                                      *)
CalculateQuality(f) ==
    IF f.bounds = "out" THEN 3000
    ELSE LET baseScore == IF f.bounds = "in" THEN 6000 ELSE 5000
             aspectScore == IF f.aspectOk THEN 10000 ELSE 8000
             areaScore == CASE f.area = "good" -> 10000
                            [] f.area = "fair" -> 9000
                            [] OTHER -> 7000
             angleScore == IF f.angleOk THEN 10000 ELSE 8000
             finalScore == (baseScore * 50 + aspectScore * 20 + angleScore * 15
                            + areaScore * 15) \div 100
         IN  Max(5000, Min(10000, finalScore))

(* isStable requiring 6 frames at every quality *)
RequiredFrames_AlwaysSix(quality) == framesLow

(* the frame count isStable requires at this quality *)
RequiredFrames(quality) == IF quality > decentQuality THEN framesDecent ELSE framesLow

(* isStable without the floor of the counter at 0 *)
IsStable_NoFloor(s, corners, quality) ==
    IF quality > acceptQuality
    THEN LET n == s.consecutiveGoodFrames + 1
         IN  [s EXCEPT !.consecutiveGoodFrames = n,
                       !.stableFrames = n,
                       !.lastCorners = IF s.lastCorners = Null THEN Some(corners)
                                       ELSE IF n % 3 = 0 THEN Some(corners)
                                       ELSE s.lastCorners]
    ELSE LET n == s.consecutiveGoodFrames - 1
         IN  [s EXCEPT !.consecutiveGoodFrames = n, !.stableFrames = n]

(* isStable: the tracker update; the value it returns is Stable below *)
IsStable(s, corners, quality) ==
    IF quality > acceptQuality
    THEN LET n == s.consecutiveGoodFrames + 1
         IN  [s EXCEPT !.consecutiveGoodFrames = n,
                       !.stableFrames = n,
                       !.lastCorners = IF s.lastCorners = Null THEN Some(corners)
                                       ELSE IF n % 3 = 0 THEN Some(corners)
                                       ELSE s.lastCorners]
    ELSE LET n == Max(0, s.consecutiveGoodFrames - 1)
         IN  [s EXCEPT !.consecutiveGoodFrames = n, !.stableFrames = n]

Stable(s, quality) == s.stableFrames >= RequiredFrames(quality)

(* smoothCorners: the exponential moving average of the corners drawn.    *)
(* The average of two different quadrilaterals is one value, "blend".     *)
SmoothCorners(s, newCorners) ==
    IF newCorners = Null THEN [s EXCEPT !.smoothedCorners = Null]
    ELSE IF s.smoothedCorners = Null THEN [s EXCEPT !.smoothedCorners = newCorners]
    ELSE IF s.smoothedCorners = newCorners THEN s
    ELSE [s EXCEPT !.smoothedCorners = Some("blend")]

(* drawOverlay changes the service only through smoothCorners *)
DrawOverlay(s, corners) == SmoothCorners(s, corners)

Detection(f, quality, stable) ==
    [cb |-> "onDetection", detected |-> (f.corners # Null), corners |-> f.corners,
     quality |-> quality, stable |-> stable]
AutoCapture == [cb |-> "onAutoCapture"]

(* What processFrame has done when it returns or reaches its await:        *)
(* the service, the callbacks invoked, what the tick did, and the corners  *)
(* handed to correctPerspective if a capture began.                        *)
DocRes(s, out, did, capture) == [s |-> s, out |-> out, did |-> did, capture |-> capture]

(* cornerHistory.push without the shift *)
PushHistory_NoShift(history, corners) == Append(history, corners)

(* cornerHistory.push(corners), then shift() if the length exceeds maxHistory *)
PushHistory(history, corners) ==
    LET h == Append(history, corners)
    IN  IF Len(h) > maxHistory THEN Tail(h) ELSE h

(* processFrame, the part that analyses the frame (from the try on) *)
AnalyseFrame(s, f) ==
    LET quality == IF f.corners = Null THEN 0 ELSE CalculateQuality(f)
        s1 == IF f.corners # Null
              THEN LET t == IsStable(s, f.corners[1], quality)
                   IN  [t EXCEPT !.cornerHistory = PushHistory(@, f.corners[1])]
              ELSE [s EXCEPT !.stableFrames = 0, !.consecutiveGoodFrames = 0,
                             !.cornerHistory = <<>>, !.lastCorners = Null]
        stable == IF f.corners # Null THEN Stable(s1, quality) ELSE FALSE
        s2 == DrawOverlay(s1, f.corners)
        out == <<Detection(f, quality, stable)>>
        isProperlyDetected ==
            /\ f.corners # Null
            /\ f.rectangularity > minRectangularity
            /\ quality > decentQuality
        shouldCapture ==
            /\ isProperlyDetected
            /\ s2.stableFrames >= captureFrames
            /\ ~s2.captureTriggered
            /\ s2.onAutoCapture
    IN  IF shouldCapture
        THEN DocRes([s2 EXCEPT !.captureTriggered = TRUE], out, "detect", f.corners)
        ELSE DocRes(s2, out, "detect", Null)

(* processFrame, up to its return or to the await of correctPerspective *)
ProcessFrame(s, f) ==
    IF s.cancelled \/ s.captureTriggered THEN DocRes(s, <<>>, "locked", Null)
    ELSE LET s1 == [s EXCEPT !.frameSkip = @ + 1]
             s2 == [s1 EXCEPT !.frameSkip = 0]
         IN  IF s1.frameSkip < frameSkipCount
             THEN DocRes(IF s1.smoothedCorners # Null
                         THEN DrawOverlay(s1, s1.smoothedCorners) ELSE s1,
                         <<>>, "overlay", Null)
             ELSE IF ~f.ready THEN DocRes(s2, <<>>, "idle", Null)
             ELSE AnalyseFrame(s2, f)

(* the post-capture timer releasing the lock and keeping the tracker *)
PostCaptureReset_KeepsTracker(s) == [s EXCEPT !.captureTriggered = FALSE]

(* the reset the post-capture timer performs *)
PostCaptureReset(s) ==
    [s EXCEPT !.captureTriggered = FALSE, !.stableFrames = 0,
              !.consecutiveGoodFrames = 0, !.cornerHistory = <<>>,
              !.lastCorners = Null, !.smoothedCorners = Null]

(* cleanup that winds the counters down by one instead of clearing them *)
DocCleanup_Decay(s) ==
    [s EXCEPT !.cancelled = TRUE, !.raf = FALSE,
              !.stableFrames = Max(0, @ - 1),
              !.consecutiveGoodFrames = Max(0, @ - 1),
              !.cornerHistory = <<>>, !.lastCorners = Null,
              !.smoothedCorners = Null, !.captureTriggered = FALSE,
              !.frameSkip = 0]

(* SimpleDocumentDetectionService.cleanup *)
DocCleanup(s) ==
    [s EXCEPT !.cancelled = TRUE, !.raf = FALSE, !.stableFrames = 0,
              !.consecutiveGoodFrames = 0, !.cornerHistory = <<>>,
              !.lastCorners = Null, !.smoothedCorners = Null,
              !.captureTriggered = FALSE, !.frameSkip = 0]

(* the capture resolves and the lock is released at once, with no timer *)
CaptureResolved_NoCooldown(s, outcome) ==
    IF outcome = "file"
    THEN [s |-> [s EXCEPT !.captureTriggered = FALSE], out |-> <<AutoCapture>>, timer |-> FALSE]
    ELSE [s |-> [s EXCEPT !.captureTriggered = FALSE], out |-> <<>>, timer |-> FALSE]

(* the capture fails and the lock stays *)
CaptureResolved_KeepsLock(s, outcome) ==
    IF outcome = "file"
    THEN [s |-> s, out |-> <<AutoCapture>>, timer |-> TRUE]
    ELSE [s |-> s, out |-> <<>>, timer |-> FALSE]

(* processFrame after the await: correctPerspective gave a file, or null   *)
(* (it catches its own errors and returns null).  timer: the 3 s timer is  *)
(* set.                                                                    *)
CaptureResolved(s, outcome) ==
    IF outcome = "file"
    THEN [s |-> s, out |-> <<AutoCapture>>, timer |-> TRUE]
    ELSE [s |-> [s EXCEPT !.captureTriggered = FALSE], out |-> <<>>, timer |-> FALSE]

RectifyOutcomes == {"file", "null"}

(* the last ticks, newest last: as many as one skip cycle is said to have *)
Logged(log, did) ==
    LET l == Append(log, did)
    IN  IF Len(l) > frameSkipCount + 1 THEN Tail(l) ELSE l

----------------------------------------------------------------------------
(* Actions of the document step *)

(* useDocumentUpload constructs the service *)
DocConstruct(onAutoCapture) ==
    /\ doc = NoService
    /\ doc' = InitialDoc(onAutoCapture)
    /\ UNCHANGED <<docCapture, cooldownTimers, docNow, docOut, docLog, goodRun,
                   autoCaptures>>
    /\ UNCHANGED <<faceVars, otherVars>>

(* start(): the first animation frame is requested *)
DocStart ==
    /\ doc # NoService
    /\ ~doc.cancelled /\ ~doc.raf
    /\ doc' = [doc EXCEPT !.raf = TRUE]
    /\ docOut' = <<>>
    /\ UNCHANGED <<docCapture, cooldownTimers, docNow, docLog, goodRun, autoCaptures>>
    /\ UNCHANGED <<faceVars, otherVars>>

(* The animation frame fires: tick calls processFrame and requests the     *)
(* next frame.                                                             *)
DocTick(f) ==
    /\ doc # NoService
    /\ doc.raf
    /\ doc.consecutiveGoodFrames < MaxGoodFrames
    /\ LET r == ProcessFrame(doc, f)
           good == f.corners # Null /\ CalculateQuality(f) > acceptQuality
       IN  /\ doc' = [r.s EXCEPT !.raf = ~doc.cancelled]
           /\ docOut' = r.out
           /\ docCapture' = IF r.capture # Null THEN r.capture ELSE docCapture
           /\ docLog' = IF r.did = "locked" THEN docLog ELSE Logged(docLog, r.did)
           /\ goodRun' = IF r.did # "detect" THEN goodRun
                         ELSE IF good THEN Min(goodRun + 1, framesLow) ELSE 0
    /\ UNCHANGED <<cooldownTimers, docNow, autoCaptures>>
    /\ UNCHANGED <<faceVars, otherVars>>

(* correctPerspective settles and processFrame resumes *)
DocCaptureResolves(outcome) ==
    /\ docCapture # Null
    /\ LET r == CaptureResolved(doc, outcome)
       IN  /\ doc' = r.s
           /\ docOut' = r.out
           /\ autoCaptures' = autoCaptures + Len(r.out)
           /\ cooldownTimers' = IF r.timer THEN cooldownTimers \cup {docNow + captureCooldown}
                                ELSE cooldownTimers
    /\ docCapture' = Null
    /\ UNCHANGED <<docNow, docLog, goodRun>>
    /\ UNCHANGED <<faceVars, otherVars>>

(* The timer set after a capture fires *)
DocCooldownFires ==
    /\ \E t \in cooldownTimers :
          /\ docNow >= t
          /\ cooldownTimers' = cooldownTimers \ {t}
    /\ doc' = PostCaptureReset(doc)
    /\ docOut' = <<>>
    /\ goodRun' = 0
    /\ UNCHANGED <<docCapture, docNow, docLog, autoCaptures>>
    /\ UNCHANGED <<faceVars, otherVars>>

(* useDocumentUpload leaves the scan mode: cleanup() *)
DocCleanupCall ==
    /\ doc # NoService
    /\ ~doc.cancelled
    /\ doc' = DocCleanup(doc)
    /\ docOut' = <<>>
    /\ goodRun' = 0
    /\ UNCHANGED <<docCapture, cooldownTimers, docNow, docLog, autoCaptures>>
    /\ UNCHANGED <<faceVars, otherVars>>

(* Time passes *)
DocAdvanceTime ==
    /\ docNow + DocTimeStep <= MaxDocNow
    /\ docNow' = docNow + DocTimeStep
    /\ docOut' = <<>>
    /\ UNCHANGED <<doc, docCapture, cooldownTimers, docLog, goodRun, autoCaptures>>
    /\ UNCHANGED <<faceVars, otherVars>>

NextDoc ==
    \/ \E cb \in BOOLEAN : DocConstruct(cb)
    \/ DocStart
    \/ \E f \in TickInputs : DocTick(f)
    \/ \E outcome \in RectifyOutcomes : DocCaptureResolves(outcome)
    \/ DocCooldownFires
    \/ DocCleanupCall
    \/ DocAdvanceTime

SpecDoc == Init /\ [][NextDoc]_vars

----------------------------------------------------------------------------
(* orderPoints, calculateRectangularity and calculateQuality on points     *)
(* with pixel coordinates.  Lengths are kept in tenths of a pixel, angles  *)
(* in thousandths of a radian, scores in ten-thousandths.                  *)

(* the contour points tried: in the frame, close to its top edge (y = 3)   *)
(* and on its left border (x = 0)                                          *)
Xs == {0, 100, 300}
Ys == {3, 100, 300}
Points == {[x |-> a, y |-> b] : a \in Xs, b \in Ys}
Quads == {<<a, b, c, d>> : a \in Points, b \in Points, c \in Points, d \in Points}
FrameWidth == 400
FrameHeight == 400

(* Array.prototype.sort with the comparator (a, b) => a[k] - b[k]: the     *)
(* sort is stable, elements that compare equal keep their input order      *)
RECURSIVE InsertBy(_, _, _)
InsertBy(s, p, k) ==
    IF s = <<>> THEN <<p>>
    ELSE IF s[Len(s)][k] <= p[k] THEN Append(s, p)
    ELSE Append(InsertBy(SubSeq(s, 1, Len(s) - 1), p, k), s[Len(s)])

RECURSIVE SortBy(_, _)
SortBy(s, k) ==
    IF s = <<>> THEN <<>>
    ELSE InsertBy(SortBy(SubSeq(s, 1, Len(s) - 1), k), s[Len(s)], k)

(* orderPoints without the sort of the two top points by x *)
OrderPoints_TopUnsorted(points) ==
    LET sorted == SortBy(points, "y")
        topPoints == SubSeq(sorted, 1, 2)
        bottomPoints == SortBy(SubSeq(sorted, 3, 4), "x")
    IN  [topLeft |-> topPoints[1], topRight |-> topPoints[2],
         bottomRight |-> bottomPoints[2], bottomLeft |-> bottomPoints[1]]

OrderPoints(points) ==
    LET sorted == SortBy(points, "y")
        topPoints == SortBy(SubSeq(sorted, 1, 2), "x")
        bottomPoints == SortBy(SubSeq(sorted, 3, 4), "x")
    IN  [topLeft |-> topPoints[1], topRight |-> topPoints[2],
         bottomRight |-> bottomPoints[2], bottomLeft |-> bottomPoints[1]]

(* corners a caller labels itself, in the order topLeft, topRight,         *)
(* bottomRight, bottomLeft                                                 *)
CornersOf(points) ==
    [topLeft |-> points[1], topRight |-> points[2],
     bottomRight |-> points[3], bottomLeft |-> points[4]]

(* Math.sqrt, rounded down to an integer *)
RECURSIVE SqrtBetween(_, _, _)
SqrtBetween(n, lo, hi) ==
    IF lo = hi THEN lo
    ELSE LET mid == (lo + hi + 1) \div 2
         IN  IF mid * mid <= n THEN SqrtBetween(n, mid, hi)
             ELSE SqrtBetween(n, lo, mid - 1)
Sqrt(n) == SqrtBetween(n, 0, 46340)

(* Math.sqrt(Math.pow(b.x - a.x, 2) + Math.pow(b.y - a.y, 2)), in tenths *)
Distance(a, b) ==
    Sqrt(100 * ((b.x - a.x) * (b.x - a.x) + (b.y - a.y) * (b.y - a.y)))

(* Math.PI and Math.PI / 2 in thousandths of a radian *)
Pi == 3142
HalfPi == 1571

(* Math.atan2(y, x) in thousandths of a radian.  The arc tangent of a      *)
(* ratio z in [0, 1] is taken as z * (pi/4 + 0.273 * (1 - z)), which is    *)
(* within 0.004 rad of it and exact at 0 and 1.                            *)
Atan2(y, x) ==
    IF x = 0 /\ y = 0 THEN 0
    ELSE LET ax == Abs(x)
             ay == Abs(y)
             z == (Min(ax, ay) * 1000) \div Max(ax, ay)
             a == (z * (785 + (273 * (1000 - z)) \div 1000)) \div 1000
             q == IF ay > ax THEN HalfPi - a ELSE a
         IN  IF x >= 0 THEN (IF y >= 0 THEN q ELSE -q)
             ELSE (IF y >= 0 THEN Pi - q ELSE q - Pi)

(* the angles at topLeft and at topRight both functions measure *)
Angle1(c) ==
    Abs(Atan2(c.topRight.y - c.topLeft.y, c.topRight.x - c.topLeft.x)
        - Atan2(c.bottomLeft.y - c.topLeft.y, c.bottomLeft.x - c.topLeft.x))
Angle2(c) ==
    Abs(Atan2(c.bottomRight.y - c.topRight.y, c.bottomRight.x - c.topRight.x)
        - Atan2(c.topRight.y - c.topLeft.y, c.topRight.x - c.topLeft.x))

(* the value of 0 / 0; a number v is kept as <<v>> where NaN can occur *)
NaN == <<>>

(* calculateRectangularity: NaN when both sides of a pair have length 0 *)
CalculateRectangularity(c) ==
    LET width1 == Distance(c.topLeft, c.topRight)
        width2 == Distance(c.bottomLeft, c.bottomRight)
        height1 == Distance(c.topLeft, c.bottomLeft)
        height2 == Distance(c.topRight, c.bottomRight)
        angle1Score == 10000 - (Abs(Angle1(c) - HalfPi) * 10000) \div HalfPi
        angle2Score == 10000 - (Abs(Angle2(c) - HalfPi) * 10000) \div HalfPi
    IN  IF Max(width1, width2) = 0 \/ Max(height1, height2) = 0 THEN NaN
        ELSE LET widthRatio == (Min(width1, width2) * 10000) \div Max(width1, width2)
                 heightRatio == (Min(height1, height2) * 10000) \div Max(height1, height2)
             IN  Some((widthRatio * 30 + heightRatio * 30 + angle1Score * 20
                       + angle2Score * 20) \div 100)

(* The measurements calculateQuality takes of the corners: where they lie  *)
(* (margin 5), the aspect ratio in [0.2, 5], the share of the frame the    *)
(* document covers, the two angles within 1.0 rad of a right angle.  A     *)
(* division by 0 gives Infinity or NaN and the comparison is false.        *)
Measure(c, width, height) ==
    LET margin == 5
        inBounds ==
            /\ c.topLeft.x > margin /\ c.topLeft.y > margin
            /\ c.topRight.x < width - margin /\ c.topRight.y > margin
            /\ c.bottomRight.x < width - margin /\ c.bottomRight.y < height - margin
            /\ c.bottomLeft.x > margin /\ c.bottomLeft.y < height - margin
        allInBounds ==
            /\ c.topLeft.x > 0 /\ c.topLeft.y > 0
            /\ c.topRight.x < width /\ c.topRight.y > 0
            /\ c.bottomRight.x < width /\ c.bottomRight.y < height
            /\ c.bottomLeft.x > 0 /\ c.bottomLeft.y < height
        widths == Distance(c.topLeft, c.topRight) + Distance(c.bottomLeft, c.bottomRight)
        heights == Distance(c.topLeft, c.bottomLeft) + Distance(c.topRight, c.bottomRight)
        docArea == widths * heights          \* 400 times the area in pixels
        frameArea == width * height
    IN  [ready |-> TRUE,
         corners |-> Some(c),
         bounds |-> IF inBounds THEN "in" ELSE IF allInBounds THEN "edge" ELSE "out",
         aspectOk |-> heights > 0 /\ 5 * widths >= heights /\ widths <= 5 * heights,
         angleOk |-> Abs(Angle1(c) - HalfPi) < 1000 /\ Abs(Angle2(c) - HalfPi) < 1000,
         area |-> IF docArea > 40 * frameArea /\ docArea < 380 * frameArea THEN "good"
                  ELSE IF docArea > 20 * frameArea /\ docArea < 392 * frameArea
                       THEN "fair" ELSE "poor",
         rectangularity |-> CalculateRectangularity(c)]

(* calculateQuality(corners, width, height) *)
Quality(c, width, height) == CalculateQuality(Measure(c, width, height))

(* DocumentDetectionService.calculateQuality, the detector built on        *)
(* OpenCV: the score has a stability part, the distance of the corners     *)
(* from the last entry of the detector's cornerHistory                     *)
DetectorQuality(c, width, height, cornerHistory) ==
    LET margin == 20
        inBounds ==
            /\ c.topLeft.x > margin /\ c.topLeft.y > margin
            /\ c.topRight.x < width - margin /\ c.topRight.y > margin
            /\ c.bottomRight.x < width - margin /\ c.bottomRight.y < height - margin
            /\ c.bottomLeft.x > margin /\ c.bottomLeft.y < height - margin
        widths == Distance(c.topLeft, c.topRight) + Distance(c.bottomLeft, c.bottomRight)
        heights == Distance(c.topLeft, c.bottomLeft) + Distance(c.topRight, c.bottomRight)
        aspectScore == IF heights > 0 /\ 2 * widths >= heights /\ widths <= 2 * heights
                       THEN 10000 ELSE 5000
        lastCorners == cornerHistory[Len(cornerHistory)]
        dl == Distance(c.topLeft, lastCorners.topLeft)
        dr == Distance(c.topRight, lastCorners.topRight)
        cornerDistance == Sqrt(dl * dl + dr * dr)
        stabilityScore ==
            IF cornerHistory = <<>> THEN 10000
            ELSE IF cornerDistance < 100 THEN 10000
            ELSE Max(0, 10000 - cornerDistance * 20)
        angleScore == IF Abs(Angle1(c) - HalfPi) < 300 /\ Abs(Angle2(c) - HalfPi) < 300
                      THEN 10000 ELSE 7000
    IN  IF ~inBounds THEN 0
        ELSE (aspectScore * 30 + stabilityScore * 40 + angleScore * 30) \div 100

(* capacity of the cornerHistory of DocumentDetectionService *)
detectorMaxHistory == 10

(* frames the OpenCV detector is given in one run *)
MaxDetectorFrames == 3

(* corners of a document other than the one under test *)
OtherCorners ==
    [topLeft |-> [x |-> 150, y |-> 150], topRight |-> [x |-> 350, y |-> 150],
     bottomRight |-> [x |-> 350, y |-> 350], bottomLeft |-> [x |-> 150, y |-> 350]]

(* One run: four contour points and the size of the frame are given.       *)
(* corners is the labelling in use, ordered says that orderPoints made it; *)
(* quality and rectangularity are the scores of corners once scored is     *)
(* set; cornerHistory is the history of the OpenCV detector and scores the *)
(* set of scores its calculateQuality returned for corners.                *)
InitGeometry ==
    /\ InitCapture
    /\ geom \in {[points |-> q, width |-> FrameWidth, height |-> FrameHeight,
                  corners |-> Null, ordered |-> FALSE, scored |-> FALSE,
                  quality |-> 0, rectangularity |-> NaN,
                  cornerHistory |-> <<>>, scores |-> {}] : q \in Quads}
    /\ loops = NoLoops
    /\ http = NoCall
    /\ render = FirstRender

(* findDocumentContour hands the points of the best contour to orderPoints *)
OrderPointsCall ==
    /\ geom # NoGeometry
    /\ geom.corners = Null
    /\ geom' = [geom EXCEPT !.corners = Some(OrderPoints(geom.points)),
                            !.ordered = TRUE]
    /\ UNCHANGED <<faceVars, docVars, loops, http, render>>

(* a caller of calculateQuality that has labelled corners of its own, as   *)
(* processFrame has with the smoothed corners on a skipped tick            *)
CornersGiven ==
    /\ geom # NoGeometry
    /\ geom.corners = Null
    /\ geom' = [geom EXCEPT !.corners = Some(CornersOf(geom.points))]
    /\ UNCHANGED <<faceVars, docVars, loops, http, render>>

(* calculateQuality and calculateRectangularity are applied to the corners *)
CalculateQualityCall ==
    /\ geom # NoGeometry
    /\ geom.corners # Null
    /\ ~geom.scored
    /\ geom' = [geom EXCEPT
                  !.scored = TRUE,
                  !.quality = Quality(geom.corners[1], geom.width, geom.height),
                  !.rectangularity = CalculateRectangularity(geom.corners[1])]
    /\ UNCHANGED <<faceVars, docVars, loops, http, render>>

(* DocumentDetectionService.processFrame on a frame in which it finds the  *)
(* corners c: the corners under test or those of another document.  It     *)
(* scores them and then appends them to its history.  The detectors are    *)
(* run one after the other.                                                *)
DetectorFrame(c) ==
    /\ geom # NoGeometry
    /\ geom.scored /\ geom.ordered
    /\ Len(geom.cornerHistory) < MaxDetectorFrames
    /\ LET q == DetectorQuality(c, geom.width, geom.height, geom.cornerHistory)
           h == Append(geom.cornerHistory, c)
       IN  geom' = [geom EXCEPT
                      !.cornerHistory =
                          IF Len(h) > detectorMaxHistory THEN Tail(h) ELSE h,
                      !.scores = IF c = geom.corners[1] THEN @ \cup {q} ELSE @]
    /\ UNCHANGED <<faceVars, docVars, loops, http, render>>

(* the corners the OpenCV detector may find in a frame *)
DetectorInputs ==
    {OtherCorners} \cup (IF geom # NoGeometry /\ geom.corners # Null
                         THEN {geom.corners[1]} ELSE {})

NextGeometry ==
    \/ OrderPointsCall
    \/ CornersGiven
    \/ CalculateQualityCall
    \/ \E c \in DetectorInputs : DetectorFrame(c)

SpecGeometry == InitGeometry /\ [][NextGeometry]_vars

----------------------------------------------------------------------------
(* The frame loops.  The loop of FaceMeshService is the tick function of   *)
(* initialize(): raf counts the tick callbacks requested from the browser, *)
(* sends the faceMesh.send calls that have not settled.  The loop of the   *)
(* document service is DocTick above with the capture it may start.        *)

MaxInFlight == 2         \* a tick is run while fewer sends than this are in flight

(* what the tick finds: the video shows a frame, has none yet, or the      *)
(* video element is gone                                                   *)
VideoStates == {"ready", "notReady", "unmounted"}

(* tick, up to its return or to the await of faceMesh.send, starting the   *)
(* next tick before the send has settled                                   *)
FaceTick_SchedulesFirst(l, video) ==
    LET l1 == [l EXCEPT !.raf = @ - 1]
    IN  IF l1.cancelled THEN l1
        ELSE IF video = "unmounted" \/ ~l1.faceMesh THEN l1
        ELSE IF video = "ready" THEN [l1 EXCEPT !.sends = @ + 1, !.raf = @ + 1]
        ELSE [l1 EXCEPT !.raf = @ + 1]

(* tick, up to its return or to the await of faceMesh.send *)
FaceTick(l, video) ==
    LET l1 == [l EXCEPT !.raf = @ - 1]
    IN  IF l1.cancelled THEN l1
        ELSE IF video = "unmounted" \/ ~l1.faceMesh THEN l1
        ELSE IF video = "ready" THEN [l1 EXCEPT !.sends = @ + 1]
        ELSE [l1 EXCEPT !.raf = @ + 1]

(* tick after the await: the next tick is requested unless cancelled *)
FaceSendSettled(l) ==
    [l EXCEPT !.sends = @ - 1, !.raf = IF l.cancelled THEN @ ELSE @ + 1]

(* cleanup(): the request held in cameraDriverRef is cancelled *)
LoopCleanup(l) ==
    [l EXCEPT !.cancelled = TRUE, !.raf = IF @ > 0 THEN @ - 1 ELSE 0,
              !.faceMesh = FALSE]

(* initialize() has loaded the model and requests the first tick *)
FaceLoopStart ==
    /\ loops = NoLoops
    /\ loops' = [face |-> "started", raf |-> 1, sends |-> 0, cancelled |-> FALSE,
                 faceMesh |-> TRUE]
    /\ UNCHANGED <<faceVars, docVars, geom, http, render>>

(* the browser runs a requested tick *)
FaceLoopTick(video) ==
    /\ loops.raf > 0
    /\ loops.sends < MaxInFlight
    /\ loops' = FaceTick(loops, video)
    /\ UNCHANGED <<faceVars, docVars, geom, http, render>>

(* faceMesh.send resolves, after onResults has run, or rejects *)
FaceLoopSendSettles ==
    /\ loops.sends > 0
    /\ loops' = FaceSendSettled(loops)
    /\ UNCHANGED <<faceVars, docVars, geom, http, render>>

(* the hook's effect cleanup calls cleanup() *)
FaceLoopCleanup ==
    /\ loops # NoLoops
    /\ ~loops.cancelled
    /\ loops' = LoopCleanup(loops)
    /\ UNCHANGED <<faceVars, docVars, geom, http, render>>

(* frames of the document loop: no frame yet, or a document well in view *)
LoopFrames == {NotReady, Document("A", "in", 9000)}

NextLoops ==
    \/ FaceLoopStart
    \/ \E video \in VideoStates : FaceLoopTick(video)
    \/ FaceLoopSendSettles
    \/ FaceLoopCleanup
    \/ DocConstruct(TRUE)
    \/ DocStart
    \/ \E f \in LoopFrames : DocTick(f)
    \/ \E outcome \in RectifyOutcomes : DocCaptureResolves(outcome)
    \/ DocCooldownFires
    \/ DocCleanupCall
    \/ DocAdvanceTime

SpecLoops == Init /\ [][NextLoops]_vars

----------------------------------------------------------------------------
(* The HTTP layer: ApiClient.request with retryRequest (sdk/client,        *)
(* sdk/utils/http) and the uploads of KycApiService (services/index.ts)    *)

MaxRetries == 3          \* the caller configures 0..MaxRetries retries, or none

defaultRetries == 3      \* DEFAULT_CONFIG.retries
defaultRetryDelay == 1000 \* DEFAULT_CONFIG.retryDelay, ms

(* mergeConfig: userConfig.retries ?? DEFAULT_CONFIG.retries *)
MergeRetries(userRetries) ==
    IF userRetries = Null THEN defaultRetries ELSE userRetries[1]

(* How one makeRequest call ends: it resolves, or it rejects with an       *)
(* AstraSDKError of the response status (400, 429, 499, 500) or, after a   *)
(* network error, with no status (0)                                       *)
AttemptOutcomes ==
    {[ok |-> TRUE, status |-> 200], [ok |-> FALSE, status |-> 400],
     [ok |-> FALSE, status |-> 429], [ok |-> FALSE, status |-> 499],
     [ok |-> FALSE, status |-> 500], [ok |-> FALSE, status |-> 0]}

(* the 4xx test of retryRequest without its exception for 429 *)
ClientError_No429Exception(status) == status # 0 /\ status >= 400 /\ status < 500

(* the error is one retryRequest rethrows at once: a client error, not 429 *)
ClientError(status) == status # 0 /\ status >= 400 /\ status < 500 /\ status # 429

(* the wait retryRequest sets after the failure of attempt i (from 0) *)
RetryWait(delay, i) == delay * (i + 1)

(* ApiClient.request has called requestFn for the first time *)
Requested(retries) ==
    [call |-> "request", retries |-> retries, delay |-> defaultRetryDelay,
     i |-> 0, attempts |-> 1,
     inFlight |-> TRUE, timer |-> Null, waits |-> <<>>, outcomes |-> <<>>,
     settled |-> "pending", result |-> Null, error |-> Null]

(* retryRequest going round the loop once more after a failed last attempt *)
AttemptSettled_OneMore(h, o) ==
    LET k == h.attempts
        h1 == [h EXCEPT !.inFlight = FALSE, !.outcomes = Append(@, o)]
        failure == [status |-> o.status, attempt |-> k]
    IN  IF o.ok THEN [h1 EXCEPT !.settled = "resolved", !.result = Some(k)]
        ELSE IF h.retries <= 0
             THEN [h1 EXCEPT !.settled = "rejected", !.error = Some(failure)]
        ELSE IF ClientError(o.status)
             THEN [h1 EXCEPT !.settled = "rejected", !.error = Some(failure)]
        ELSE IF h.i <= h.retries
             THEN [h1 EXCEPT !.error = Some(failure),
                             !.timer = Some(RetryWait(h.delay, h.i))]
        ELSE [h1 EXCEPT !.settled = "rejected", !.error = Some(failure)]

(* The promise of attempt number h.attempts settles with o and the caller  *)
(* resumes: requestFn() itself when retries is not positive, otherwise     *)
(* the body of the loop of retryRequest; error is lastError until the      *)
(* call has settled.                                                       *)
AttemptSettled(h, o) ==
    LET k == h.attempts
        h1 == [h EXCEPT !.inFlight = FALSE, !.outcomes = Append(@, o)]
        failure == [status |-> o.status, attempt |-> k]
    IN  IF o.ok THEN [h1 EXCEPT !.settled = "resolved", !.result = Some(k)]
        ELSE IF h.retries <= 0
             THEN [h1 EXCEPT !.settled = "rejected", !.error = Some(failure)]
        ELSE IF ClientError(o.status)
             THEN [h1 EXCEPT !.settled = "rejected", !.error = Some(failure)]
        ELSE IF h.i < h.retries
             THEN [h1 EXCEPT !.error = Some(failure),
                             !.timer = Some(RetryWait(h.delay, h.i))]
        ELSE [h1 EXCEPT !.settled = "rejected", !.error = Some(failure)]

(* the timer of the wait fires: the loop goes on with the next attempt *)
WaitOver(h) ==
    [h EXCEPT !.timer = Null, !.waits = Append(@, h.timer[1]), !.i = @ + 1,
              !.attempts = @ + 1, !.inFlight = TRUE]

(* the answers to the status request: the fetch rejects, the response is   *)
(* not ok, its body has no data.status, or it names the session status     *)
StatusAnswers == {"network", "notOk", "malformed", "ACTIVE", "EXPIRED", "COMPLETED"}
UploadAnswers == {"network", "notOk", "ok"}
Uploads == {"uploadFaceScan", "uploadDocument"}

(* uploadFaceScan / uploadDocument have called checkSessionActive, which   *)
(* has sent the status request                                             *)
UploadStarted(upload) ==
    [call |-> upload, requests |-> <<"GET status">>, pending |-> "status",
     answer |-> Null, settled |-> "pending"]

(* the POST of the upload *)
Post(upload) == IF upload = "uploadFaceScan" THEN "POST face" ELSE "POST docs"

(* checkSessionActive letting every answered status pass *)
StatusSettled_AnyStatus(h, a) ==
    IF a \in {"network", "notOk", "malformed"}
    THEN [h EXCEPT !.pending = "none", !.answer = Some(a), !.settled = "rejected"]
    ELSE [h EXCEPT !.pending = "upload", !.answer = Some(a),
                   !.requests = Append(@, Post(h.call))]

(* the status request settles: getSessionStatus and checkSessionActive     *)
(* throw, or the upload goes on to its POST                                *)
StatusSettled(h, a) ==
    IF a # "ACTIVE"
    THEN [h EXCEPT !.pending = "none", !.answer = Some(a), !.settled = "rejected"]
    ELSE [h EXCEPT !.pending = "upload", !.answer = Some(a),
                   !.requests = Append(@, Post(h.call))]

(* the POST settles *)
UploadSettled(h, a) ==
    [h EXCEPT !.pending = "none",
              !.settled = IF a = "ok" THEN "resolved" ELSE "rejected"]

(* ApiClient.request is called on a client configured with userRetries *)
RequestCall(userRetries) ==
    /\ http = NoCall
    /\ http' = Requested(MergeRetries(userRetries))
    /\ UNCHANGED <<faceVars, docVars, geom, loops, render>>

RequestSettles(o) ==
    /\ http.call = "request"
    /\ http.inFlight
    /\ http' = AttemptSettled(http, o)
    /\ UNCHANGED <<faceVars, docVars, geom, loops, render>>

RetryTimerFires ==
    /\ http.call = "request"
    /\ http.timer # Null
    /\ http' = WaitOver(http)
    /\ UNCHANGED <<faceVars, docVars, geom, loops, render>>

UploadCall(upload) ==
    /\ http = NoCall
    /\ http' = UploadStarted(upload)
    /\ UNCHANGED <<faceVars, docVars, geom, loops, render>>

StatusSettles(a) ==
    /\ http.call \in Uploads
    /\ http.pending = "status"
    /\ http' = StatusSettled(http, a)
    /\ UNCHANGED <<faceVars, docVars, geom, loops, render>>

UploadSettles(a) ==
    /\ http.call \in Uploads
    /\ http.pending = "upload"
    /\ http' = UploadSettled(http, a)
    /\ UNCHANGED <<faceVars, docVars, geom, loops, render>>

(* the retries a caller configures *)
UserRetries == {Null} \cup {Some(n) : n \in 0..MaxRetries}

NextHttp ==
    \/ \E r \in UserRetries : RequestCall(r)
    \/ \E o \in AttemptOutcomes : RequestSettles(o)
    \/ RetryTimerFires
    \/ \E upload \in Uploads : UploadCall(upload)
    \/ \E a \in StatusAnswers : StatusSettles(a)
    \/ \E a \in UploadAnswers : UploadSettles(a)

SpecHttp == Init /\ [][NextHttp]_vars

(* every request settles (makeRequest aborts it after the timeout) and     *)
(* every timer fires                                                       *)
SpecHttpLive ==
    /\ SpecHttp
    /\ WF_vars(\E o \in AttemptOutcomes : RequestSettles(o))
    /\ WF_vars(RetryTimerFires)

----------------------------------------------------------------------------
(* Properties *)

stage == livenessStateRef.stage
TriggerEmitted == \E i \in DOMAIN emitted : emitted[i].cb = "onCaptureTrigger"
NoFaceInstruction == "No face detected. Center your face in frame with good lighting."

C2_TriggerAtMostOnce ==
    /\ captureTriggers <= 1
    /\ (captureTriggers = 1) = livenessStateRef.snapTriggered
    /\ livenessStateRef.snapTriggered => stage = "DONE"
    /\ TriggerEmitted =>
          /\ stage = "DONE"
          /\ livenessStateRef.centerHold = holdFramesCenter
          /\ livenessStateRef.currentAbsYaw # Null
          /\ livenessStateRef.currentAbsYaw[1] < reducedThreshold

C2_Witness ==
    /\ captureTriggers = 1
    /\ stage = "DONE"
    /\ livenessStateRef.centerHold > holdFramesCenter
    /\ ~TriggerEmitted

(* C3: in CENTER every violating frame (face outside the guide circle, or  *)
(* absYaw >= 0.05) leaves centerHold at 0.                                 *)
C3_CenterViolationResets ==
    [][\A f \in Frames :
         (stage = "CENTER" /\ f.face /\ ~MeetsStage("CENTER", f) /\ FaceFrame(f))
            => livenessStateRef'.centerHold = 0]_vars

(* C4: the 12th consecutive good CENTER frame fed to the initial state,    *)
(* and none before it, moves the stage to LEFT: it resets centerHold and   *)
(* emits exactly one onLivenessUpdate, carrying LEFT; the 11 frames before *)
(* it count up in CENTER and emit nothing.                                 *)
C4_TwelveGoodFramesReachLeft ==
    [][(script' = script + 1 /\ script' <= CenterEnd) =>
         IF script' = CenterEnd
         THEN /\ stage = "CENTER" /\ stage' = "LEFT"
              /\ livenessStateRef'.centerHold = 0
              /\ emitted' = <<Update("LEFT", "Turn your face LEFT")>>
         ELSE /\ stage' = "CENTER"
              /\ livenessStateRef'.centerHold = script'
              /\ emitted' = <<>>]_vars

C4_Witness ==
    /\ script = CenterEnd
    /\ stage = "LEFT"
    /\ livenessStateRef.centerHold = 0
    /\ emitted = <<Update("LEFT", "Turn your face LEFT")>>

(* C5: in LEFT and in RIGHT every frame that violates the requirement of   *)
(* the stage (face too small, or yaw not beyond the turn threshold) leaves *)
(* the hold counter of that stage at 0.                                    *)
C5_TurnViolationResets ==
    [][\A f \in Frames :
         (f.face /\ FaceFrame(f)) =>
            /\ (stage = "LEFT" /\ ~MeetsStage("LEFT", f))
                  => livenessStateRef'.leftHold = 0
            /\ (stage = "RIGHT" /\ ~MeetsStage("RIGHT", f))
                  => livenessStateRef'.rightHold = 0]_vars

(* C6: completing the RIGHT hold sets livenessCompleted and enters DONE;   *)
(* once set, livenessCompleted is never cleared and the stage is never     *)
(* LEFT again; and with the flag set no frame moves a stage that has been  *)
(* put back to CENTER, whatever its hold count, on to LEFT.                *)
C6_CompletedIsFinal ==
    /\ [](stage = "DONE" => livenessStateRef.livenessCompleted)
    /\ [][(stage = "RIGHT" /\ stage' # "RIGHT") =>
             (stage' = "DONE" /\ livenessStateRef'.livenessCompleted)]_vars
    /\ [][livenessStateRef.livenessCompleted =>
             (livenessStateRef'.livenessCompleted /\ stage' # "LEFT")]_vars
    /\ [](livenessStateRef.livenessCompleted =>
             \A f \in Frames : \A h \in 0 .. holdFramesCenter :
                 ProcessResults([livenessStateRef EXCEPT !.stage = "CENTER",
                                                         !.centerHold = h],
                                f, now).s.stage # "LEFT")

C6_Witness ==
    /\ livenessStateRef.livenessCompleted
    /\ stage = "DONE"
    /\ livenessStateRef.centerHold >= holdFramesCenter
    /\ livenessStateRef.rightHold = 0

(* C7: a frame without a face emits the "no face" instruction only when    *)
(* more than 2 s have passed since the last frame that had a face.         *)
C7_NoFaceInstructionAfterGrace ==
    (\E i \in DOMAIN emitted : emitted[i].instruction = NoFaceInstruction)
        => (lastFaceAt = -1 \/ now - lastFaceAt > noFaceGrace)

(* C8: a press of the capture button while the stored absYaw is undefined  *)
(* or not below 0.05 starts no capture: nothing is in flight, loading, the *)
(* captured image and the pending timers are as before, and the only       *)
(* change is the corrective instruction; this in every stage and with      *)
(* snapTriggered set or unset.                                             *)
NotCentered ==
    \/ livenessStateRef.currentAbsYaw = Null
    \/ livenessStateRef.currentAbsYaw[1] >= captureCenterThreshold

C8_ManualCaptureRevalidated ==
    [][(ManualCapture /\ NotCentered) =>
         /\ capturesInFlight' = capturesInFlight
         /\ docTimers' = docTimers
         /\ livenessStateRef' = livenessStateRef
         /\ state' = [state EXCEPT !.livenessInstruction =
                IF livenessStateRef.currentAbsYaw = Null
                THEN "Please position your face in front of the camera"
                ELSE "Please look straight at the camera before capturing"]]_vars

(* a manual request has just been rejected in DONE, the face being turned, *)
(* before the automatic trigger has fired                                  *)
C8_Witness ==
    /\ stage = "DONE"
    /\ ~livenessStateRef.snapTriggered
    /\ livenessStateRef.currentAbsYaw # Null
    /\ livenessStateRef.currentAbsYaw[1] >= captureCenterThreshold
    /\ state.livenessInstruction = "Please look straight at the camera before capturing"
    /\ capturesInFlight = 0
    /\ ~state.capturedImage

(* C9: in the hard-failure state (livenessFailed) a press of the capture   *)
(* button captures the face: the request begins a capture.                 *)
C9_ManualFallbackCaptures ==
    [][(state.livenessFailed /\ ManualCapture) =>
          capturesInFlight' = capturesInFlight + 1]_vars

(* What the code does instead: once the model has failed no face result    *)
(* ever arrives, the stored absYaw stays undefined and no capture begins.  *)
C9_NoCaptureAfterFailure ==
    state.livenessFailed =>
        /\ livenessStateRef.currentAbsYaw = Null
        /\ capturesInFlight = 0
        /\ ~state.capturedImage

(* C10: failure of the landmark model is reported at most once: the three  *)
(* reporting paths together set livenessFailed once, it is set exactly     *)
(* when a report was made, and it is never set for a model that loaded     *)
(* (the timeout reports nothing then).                                     *)
C10_FailureReportedOnce ==
    /\ failureReports <= 1
    /\ state.livenessFailed = (failureReports = 1)
    /\ refs.livenessFailed = state.livenessFailed
    /\ ~(refs.modelLoaded /\ state.livenessFailed)

(* the model has failed and the 8 s timer has fired since *)
C10_Witness ==
    /\ failureReports = 1
    /\ state.livenessFailed
    /\ effect.started /\ ~effect.cancelled
    /\ effect.initTimeoutAt = NoTimer

----------------------------------------------------------------------------
(* Properties of the document path *)

CaptureStarts == docCapture = Null /\ docCapture' # Null
AutoCaptureEmitted == autoCaptures' # autoCaptures

C12_FailedCaptureReleasesLock ==
    [][DocCaptureResolves("null") =>
          /\ ~doc'.captureTriggered
          /\ docOut' = <<>>
          /\ autoCaptures' = autoCaptures
          /\ cooldownTimers' = cooldownTimers
          /\ ~doc'.cancelled =>
                ProcessFrame([doc' EXCEPT !.frameSkip = frameSkipCount - 1],
                             Document("A", "in", 9000)).capture # Null
      ]_vars

(* a capture of five frames of "A" has failed and the lock is free again *)
C12_Witness ==
    /\ ~doc.cancelled
    /\ doc.onAutoCapture
    /\ doc.cornerHistory = <<"A", "A", "A", "A", "A">>
    /\ doc.stableFrames = captureFrames
    /\ ~doc.captureTriggered
    /\ docCapture = Null
    /\ autoCaptures = 0

Count(log, did) == Cardinality({i \in DOMAIN log : log[i] = did})

(* C13: with frameSkipCount = 2, of any three consecutive ticks exactly    *)
(* one runs the full detection and the other two only redraw the overlay   *)
(* (ticks for which the video had a frame).                                *)
C13_OneTickInThreeDetects ==
    Len(docLog) = frameSkipCount + 1 /\ Count(docLog, "idle") = 0 =>
        /\ Count(docLog, "detect") = 1
        /\ Count(docLog, "overlay") = frameSkipCount

(* What the code does instead: the ticks alternate, a tick that analyses   *)
(* the frame always follows one that only redraws.                         *)
C13_EverySecondTickDetects ==
    \A i \in DOMAIN docLog :
        /\ (docLog[i] \in {"detect", "idle"} /\ i > 1) => docLog[i - 1] = "overlay"
        /\ (docLog[i] = "overlay" /\ i > 1) => docLog[i - 1] \in {"detect", "idle"}

(* C14: after cleanup() neither service invokes a callback, schedules a    *)
(* tick or has its state changed by a timer or a call that was in flight   *)
(* when cleanup() was called.                                              *)
C14_QuietAfterCleanup ==
    [][/\ doc.cancelled /\ doc # NoService =>
            /\ docOut' = <<>>
            /\ ~doc'.raf
            /\ doc' = doc
       /\ service.cancelled =>
            /\ emitted' = <<>>
            /\ ~service'.tick
            /\ livenessStateRef' = livenessStateRef
      ]_vars

(* What holds of the face service alone, whatever the hook does later *)
C14_FaceQuietAfterCleanup ==
    [][service.cancelled =>
            /\ emitted' = <<>>
            /\ service' = service
            /\ livenessStateRef' = livenessStateRef
            /\ captureTriggers' = captureTriggers
      ]_vars

(* What holds of the document service: once cancelled its fields stay as   *)
(* cleanup() left them and no tick is scheduled                            *)
C14_DocStateQuietAfterCleanup ==
    [][doc.cancelled /\ doc # NoService => doc' = doc /\ ~doc'.raf]_vars

(* every combination of the fields FaceMeshService.cleanup works on *)
FaceServiceStates ==
    [created : BOOLEAN, cancelled : BOOLEAN, faceMesh : BOOLEAN, tick : BOOLEAN]

(* C15: cleanup() is idempotent.  In every reachable state of the document *)
(* service, and in every state of the face service, a second cleanup()     *)
(* right after the first leaves the state the first one left.              *)
C15_CleanupIdempotent ==
    /\ doc # NoService => DocCleanup(DocCleanup(doc)) = DocCleanup(doc)
    /\ service \in FaceServiceStates
    /\ \A s \in FaceServiceStates : FaceCleanup(FaceCleanup(s)) = FaceCleanup(s)

(* cleanup() was called while a capture was in flight, after an earlier    *)
(* capture had been emitted                                                *)
C15_Witness ==
    /\ doc # NoService
    /\ doc.cancelled
    /\ docCapture # Null
    /\ autoCaptures = 1
    /\ DocCleanup(doc) = doc

(* C16: the service reports stable = true only when the last N analysed    *)
(* frames, N the frame count required at the reported quality, were all    *)
(* acceptable detections (a document of quality above 0.3).                *)
C16_StableNeedsFullWindow ==
    \A i \in DOMAIN docOut :
        (docOut[i].cb = "onDetection" /\ docOut[i].stable) =>
            goodRun >= RequiredFrames(docOut[i].quality)

(* What the code guarantees instead: stable is reported exactly when the   *)
(* counter, which an unacceptable frame lowers by one only, has reached    *)
(* the required count.                                                     *)
C16_StableIsCounterReached ==
    \A i \in DOMAIN docOut :
        (docOut[i].cb = "onDetection" /\ docOut[i].detected) =>
            (docOut[i].stable <=> doc.stableFrames >= RequiredFrames(docOut[i].quality))

(* C17: every tracker update (an analysed frame with a document) adds 1 to *)
(* the good-frame counter when the quality is above 0.3 and otherwise      *)
(* takes 1 off it, stopping at 0; the counter is never negative and        *)
(* stableFrames always equals consecutiveGoodFrames.                       *)
C17_CounterStepsAndFloor ==
    [][/\ doc' # NoService =>
            /\ doc'.consecutiveGoodFrames >= 0
            /\ doc'.stableFrames = doc'.consecutiveGoodFrames
       /\ \A f \in Detections :
            (f.corners # Null /\ DocTick(f) /\ ProcessFrame(doc, f).did = "detect") =>
                doc'.consecutiveGoodFrames =
                    IF CalculateQuality(f) > acceptQuality
                    THEN doc.consecutiveGoodFrames + 1
                    ELSE IF doc.consecutiveGoodFrames = 0 THEN 0
                    ELSE doc.consecutiveGoodFrames - 1
      ]_vars

(* the counter was 2, a frame of quality 0.3 took it to 1, and the first   *)
(* frame of the run had met the floor at 0                                 *)
C17_Witness ==
    /\ doc # NoService
    /\ doc.cornerHistory = <<"B", "A", "A", "B">>
    /\ doc.consecutiveGoodFrames = 1
    /\ doc.stableFrames = 1

(* an analysed frame in which no document was found *)
DetectionMiss == DocTick(NoDocument) /\ ProcessFrame(doc, NoDocument).did = "detect"

(* C18: a frame in which no document is detected changes nothing in the    *)
(* tracker: the good-frame counter, the reference corners and the corner   *)
(* history keep their values.                                              *)
C18_MissKeepsTracker ==
    [][DetectionMiss =>
          /\ doc'.consecutiveGoodFrames = doc.consecutiveGoodFrames
          /\ doc'.stableFrames = doc.stableFrames
          /\ doc'.lastCorners = doc.lastCorners
          /\ doc'.cornerHistory = doc.cornerHistory
      ]_vars

(* What the code does instead: such a frame clears the tracker *)
C18_MissClearsTracker ==
    [][DetectionMiss =>
          /\ doc'.consecutiveGoodFrames = 0
          /\ doc'.stableFrames = 0
          /\ doc'.lastCorners = Null
          /\ doc'.cornerHistory = <<>>
          /\ doc'.smoothedCorners = Null
      ]_vars

(* the fields that decide what the service does with the ticks it is given *)
Tracker(s) == [s EXCEPT !.raf = FALSE]

(* C19: after a reset, by cleanup() or by the timer that follows a         *)
(* completed capture, the service is in the state of a freshly constructed *)
(* one, and so treats every later sequence of ticks as a new instance      *)
(* would.                                                                  *)
C19_ResetIsFresh ==
    [][(DocCleanupCall \/ DocCooldownFires) =>
          Tracker(doc') = InitialDoc(doc.onAutoCapture)]_vars

(* What holds: the timer after a capture leaves a running service in the   *)
(* fresh state; cleanup() leaves the fresh state but for cancelled, which  *)
(* nothing clears, so the service analyses no frame again.                 *)
C19_ResetIsFreshButCancelled ==
    [][/\ (DocCooldownFires /\ ~doc.cancelled) =>
            Tracker(doc') = InitialDoc(doc.onAutoCapture)
       /\ DocCleanupCall =>
            /\ [Tracker(doc') EXCEPT !.cancelled = FALSE] = InitialDoc(doc.onAutoCapture)
            /\ \A f \in TickInputs : ProcessFrame(doc', f).did = "locked"
       /\ (doc # NoService /\ doc.cancelled) => doc'.cancelled
      ]_vars

----------------------------------------------------------------------------
(* Properties of restart and retry *)

(* the liveness state a session starts with *)
LivenessIsReset(ls) ==
    /\ ls.stage = "CENTER"
    /\ ls.centerHold = 0 /\ ls.leftHold = 0 /\ ls.rightHold = 0
    /\ ~ls.snapTriggered
    /\ ~ls.livenessCompleted

LivenessProgress(ls) ==
    <<ls.stage, ls.centerHold, ls.leftHold, ls.rightHold, ls.snapTriggered,
      ls.livenessCompleted>>

(* the events that are no restart: the landmark service is started, a      *)
(* frame has no face, a capture fails                                      *)
OtherEvent ==
    \/ \E outcome \in InitOutcomes : StartFaceMesh(outcome)
    \/ FaceFrame(NoFace)
    \/ \E outcome \in CaptureOutcomes \ {"uploaded"} : CaptureDone(outcome)

(* C20: when the restart or the retry handler has run, the liveness state  *)
(* is reset: stage CENTER, the three hold counters 0, snapTriggered and    *)
(* livenessCompleted unset; and nothing else resets it: the start of the   *)
(* landmark service, a frame without a face and a capture that fails       *)
(* leave these fields as they are.                                         *)
C20_ResetOnRestartOnly ==
    [][/\ (HandleRestart \/ HandleRetry("retried")) =>
            LivenessIsReset(livenessStateRef')
       /\ OtherEvent =>
            LivenessProgress(livenessStateRef') = LivenessProgress(livenessStateRef)
      ]_vars

(* What holds: the handlers reset the React state and the refs; the shared *)
(* liveness state gets the reset counters and stage only when the rendered *)
(* stage or readiness changes, and keeps livenessCompleted; the page       *)
(* reload the handlers schedule is what starts from the initial state.     *)
C20_HandlersResetRefsReloadResetsAll ==
    [][/\ (HandleRestart \/ HandleRetry("retried")) =>
            /\ state' = InitialState
            /\ refs'.centerHold = 0 /\ refs'.leftHold = 0 /\ refs'.rightHold = 0
            /\ ~refs'.snapTriggered
            /\ service'.cancelled /\ reloadPending'
            /\ livenessStateRef'.livenessCompleted = livenessStateRef.livenessCompleted
            /\ (state.livenessStage # "CENTER" \/ state.livenessReady) =>
                  /\ livenessStateRef'.stage = "CENTER"
                  /\ livenessStateRef'.centerHold = 0
                  /\ livenessStateRef'.leftHold = 0
                  /\ livenessStateRef'.rightHold = 0
                  /\ ~livenessStateRef'.snapTriggered
       /\ Reload => livenessStateRef' = InitialLiveness
       /\ OtherEvent =>
            LivenessProgress(livenessStateRef') = LivenessProgress(livenessStateRef)
      ]_vars

----------------------------------------------------------------------------
(* Corner ordering and scores *)

(* twice the signed area of the triangle a, b, c *)
Cross(a, b, c) == (b.x - a.x) * (c.y - a.y) - (b.y - a.y) * (c.x - a.x)

(* the orders four points can be given in *)
Orders == {f \in [1..4 -> 1..4] : \A i, j \in 1..4 : f[i] = f[j] => i = j}
Reordered(ps, f) == <<ps[f[1]], ps[f[2]], ps[f[3]], ps[f[4]]>>

(* the points, taken in some order, are the corners of a convex quadrilateral *)
ConvexQuad(ps) ==
    \E f \in Orders :
        LET q == Reordered(ps, f)
        IN  /\ Cross(q[1], q[2], q[3]) > 0
            /\ Cross(q[2], q[3], q[4]) > 0
            /\ Cross(q[3], q[4], q[1]) > 0
            /\ Cross(q[4], q[1], q[2]) > 0

(* orderPoints has just labelled the points of a convex quadrilateral *)
ConvexOrdered ==
    /\ geom # NoGeometry
    /\ geom.corners # Null
    /\ geom.ordered
    /\ ~geom.scored
    /\ ConvexQuad(geom.points)

(* C21: for four points of a convex quadrilateral, in any order,           *)
(* orderPoints returns corners with topLeft.y <= bottomLeft.y,             *)
(* topRight.y <= bottomRight.y, topLeft.x <= topRight.x and                *)
(* bottomLeft.x <= bottomRight.x, and the four corners are the four        *)
(* input points.                                                           *)
C21_OrderedCorners ==
    ConvexOrdered =>
        LET c == geom.corners[1]
        IN  /\ c.topLeft.y <= c.bottomLeft.y
            /\ c.topRight.y <= c.bottomRight.y
            /\ c.topLeft.x <= c.topRight.x
            /\ c.bottomLeft.x <= c.bottomRight.x
            /\ {c.topLeft, c.topRight, c.bottomRight, c.bottomLeft}
                   = {geom.points[i] : i \in 1..4}

(* a convex quadrilateral whose points came in another order than          *)
(* topLeft, topRight, bottomRight, bottomLeft has been labelled            *)
C21_Witness ==
    /\ ConvexOrdered
    /\ geom.corners[1] # CornersOf(geom.points)
    /\ geom.points[1].y > geom.points[4].y

(* C22: the labelling does not depend on the input order: every            *)
(* permutation of the four points of a convex quadrilateral gets the same  *)
(* topLeft, topRight, bottomRight and bottomLeft, also when two points     *)
(* share the same y.                                                       *)
C22_LabellingIgnoresInputOrder ==
    ConvexOrdered =>
        \A f \in Orders : OrderPoints(Reordered(geom.points, f)) = geom.corners[1]

(* what holds: the labelling is the same for every input order unless the  *)
(* second and the third point from the top share the same y                *)
C22_LabellingFixedWithoutTie ==
    (ConvexOrdered /\ geom.corners[1].topLeft.y # geom.corners[1].bottomLeft.y
                   /\ geom.corners[1].topLeft.y # geom.corners[1].bottomRight.y
                   /\ geom.corners[1].topRight.y # geom.corners[1].bottomLeft.y
                   /\ geom.corners[1].topRight.y # geom.corners[1].bottomRight.y) =>
        \A f \in Orders : OrderPoints(Reordered(geom.points, f)) = geom.corners[1]

(* C23: the quality calculateQuality returns lies in [0, 1] for all        *)
(* corners, also corners with sides of length 0 and corners outside the    *)
(* frame.                                                                  *)
C23_QualityInUnitInterval ==
    (geom # NoGeometry /\ geom.scored) => (geom.quality >= 0 /\ geom.quality <= 10000)

(* four equal corners inside the frame, all sides of length 0, have been   *)
(* scored: the aspect ratio is 0 / 0 and the score is 0.685                *)
C23_Witness ==
    /\ geom # NoGeometry
    /\ geom.scored
    /\ geom.points[1] = geom.points[2] /\ geom.points[2] = geom.points[3]
    /\ geom.points[3] = geom.points[4]
    /\ geom.quality = 6850

(* C24: the quality score is a function of the corners and the size of    *)
(* the frame alone: all the calls for the same corners and frame return    *)
(* the same score, whatever frames were processed in between.              *)
C24_ScoreIgnoresHistory ==
    geom # NoGeometry => Cardinality(geom.scores) <= 1

(* what holds for DocumentDetectionService: the score is the same as long  *)
(* as the frame before each call showed the same corners                   *)
C24_ScoreFixedForSteadyCorners ==
    (geom # NoGeometry
     /\ \A i \in 1..Len(geom.cornerHistory) : geom.cornerHistory[i] = geom.corners[1])
        => Cardinality(geom.scores) <= 1

(* the square of C25 *)
Square ==
    [topLeft |-> [x |-> 100, y |-> 100], topRight |-> [x |-> 300, y |-> 100],
     bottomRight |-> [x |-> 300, y |-> 300], bottomLeft |-> [x |-> 100, y |-> 300]]

SquareScored ==
    /\ geom # NoGeometry
    /\ geom.scored
    /\ geom.corners = Some(Square)
    /\ geom.width = FrameWidth /\ geom.height = FrameHeight

(* C25: the axis-aligned square (100,100), (300,100), (300,300),           *)
(* (100,300) in a frame of 400 x 400 scores quality >= 0.9 and             *)
(* rectangularity >= 0.9.                                                  *)
C25_SquareScoresHigh ==
    SquareScored =>
        /\ geom.quality >= 9000
        /\ geom.rectangularity # NaN
        /\ geom.rectangularity[1] >= 9000

(* what the code gives the square: quality 0.8 and rectangularity 1 *)
C25_SquareScores ==
    SquareScored => (geom.quality = 8000 /\ geom.rectangularity = Some(10000))


----------------------------------------------------------------------------
(* Frames in flight *)

(* the step starts a faceMesh.send *)
SendStarted == loops'.sends > loops.sends

(* the step is a tick of the document loop that analyses a frame: it      *)
(* reports a detection                                                     *)
FrameAnalysed == doc' # doc /\ docOut' # <<>> /\ docOut'[1].cb = "onDetection"

----------------------------------------------------------------------------
(* Corner history *)

(* C27: the corner history is a bounded buffer: its length never exceeds   *)
(* maxHistory, and a detection analysed when it is full drops the oldest   *)
(* entry and appends the new corners.                                      *)
C27_HistoryBounded ==
    [][/\ doc' # NoService => Len(doc'.cornerHistory) <= maxHistory
       /\ (/\ FrameAnalysed
           /\ docOut'[1].detected
           /\ Len(doc.cornerHistory) = maxHistory)
          => doc'.cornerHistory = Append(Tail(doc.cornerHistory), docOut'[1].corners[1])]_vars

(* more detections than the history holds have been analysed in a row and  *)
(* the history holds the last maxHistory of them                           *)
C27_Witness ==
    /\ doc # NoService
    /\ doc.consecutiveGoodFrames > maxHistory
    /\ Len(doc.cornerHistory) = maxHistory
    /\ doc.cornerHistory[1] # doc.cornerHistory[maxHistory]


----------------------------------------------------------------------------
(* Uploads and retries *)

(* C28: the session status is checked before every upload: the status     *)
(* request is the first request of uploadFaceScan and uploadDocument, the  *)
(* POST is sent only after it was answered with ACTIVE, and when the       *)
(* status is not ACTIVE or the status request fails the call rejects and   *)
(* no POST is sent.                                                        *)
C28_StatusBeforeUpload ==
    http.call \in Uploads =>
        /\ http.requests[1] = "GET status"
        /\ Len(http.requests) > 1 =>
              /\ http.requests = <<"GET status", Post(http.call)>>
              /\ http.answer = Some("ACTIVE")
        /\ (http.answer # Null /\ http.answer # Some("ACTIVE")) =>
              /\ http.settled = "rejected"
              /\ http.requests = <<"GET status">>

(* an upload of a document was rejected because the session had expired *)
C28_Witness ==
    /\ http.call = "uploadDocument"
    /\ http.answer = Some("EXPIRED")
    /\ http.settled = "rejected"
    /\ http.requests = <<"GET status">>

(* one ApiClient.request with retries > 0: at most retries + 1 attempts;   *)
(* resolved by the first attempt that succeeded, with nothing going on     *)
(* after it; rejected after retries + 1 failures with the last of them     *)
RetrySafe ==
    (http.call = "request" /\ http.retries > 0) =>
        LET n == http.retries
            last == Len(http.outcomes)
        IN  /\ http.attempts <= n + 1
            /\ http.settled = "resolved" =>
                  /\ http.result = Some(last)
                  /\ http.outcomes[last].ok
                  /\ \A k \in 1..(last - 1) : ~http.outcomes[k].ok
                  /\ http.attempts = last /\ ~http.inFlight /\ http.timer = Null
            /\ (last = n + 1 /\ ~http.outcomes[last].ok) =>
                  /\ http.settled = "rejected"
                  /\ http.error = Some([status |-> http.outcomes[last].status,
                                        attempt |-> n + 1])

(* C29: with retries = n > 0 one ApiClient.request invokes the request at  *)
(* most n + 1 times, returns the result of the first successful attempt    *)
(* without further attempts, rejects after n + 1 failed attempts with the  *)
(* error of the last one, and always settles.                              *)
C29_RetryBoundedAndTerminates ==
    /\ []RetrySafe
    /\ (http.call = "request") ~> (http.call = "request" /\ http.settled # "pending")

(* a request with the default of 3 retries was rejected by its fourth      *)
(* attempt, which failed in another way than the first                     *)
C29_Witness ==
    /\ http.call = "request"
    /\ http.retries = defaultRetries
    /\ http.settled = "rejected"
    /\ http.attempts = 4
    /\ http.outcomes[1].status # http.outcomes[4].status
    /\ http.error = Some([status |-> http.outcomes[4].status, attempt |-> 4])

(* C30: retryRequest uses exponential backoff: each wait is a constant     *)
(* multiple, greater than 1, of the wait before it.                        *)
C30_ExponentialBackoff ==
    http.call = "request" =>
        \A k \in 2..Len(http.waits) :
            /\ http.waits[k] > http.waits[k - 1]
            /\ k > 2 => http.waits[k] * http.waits[k - 2]
                            = http.waits[k - 1] * http.waits[k - 1]

(* what the code does: the k-th wait is k times the delay *)
C30_LinearBackoff ==
    http.call = "request" =>
        \A k \in 1..Len(http.waits) : http.waits[k] = k * http.delay

----------------------------------------------------------------------------
(* Properties of the capture path of the face scan *)

TriggerFired == captureTriggers' = captureTriggers + 1

(* C31: every capture trigger the liveness state machine fires starts a    *)
(* capture: the capture path never rejects, by its own check of the yaw,   *)
(* the face whose hold in DONE has just fired the trigger.                 *)
C31_TriggerAlwaysCaptures ==
    [][(TriggerFired /\ ~effect.cancelled) =>
          capturesInFlight' = capturesInFlight + 1]_vars

(* What the code does: the hold in DONE accepts absYaw < 0.08, the capture *)
(* path only absYaw < 0.05.  A trigger fired in between starts nothing and *)
(* leaves the instruction of the rejection, with snapTriggered set.        *)
C31_TriggerCapturesOnlyBelowCaptureThreshold ==
    [][(TriggerFired /\ ~effect.cancelled) =>
          /\ livenessStateRef'.snapTriggered
          /\ IF livenessStateRef'.currentAbsYaw[1] < captureCenterThreshold
             THEN capturesInFlight' = capturesInFlight + 1
             ELSE /\ capturesInFlight' = capturesInFlight
                  /\ state'.livenessInstruction =
                        "Please look straight at the camera before capturing"]_vars

(* C32: the face is captured and uploaded at most once at a time: with a   *)
(* manual request and the automatic trigger both occurring in DONE, never  *)
(* two captures are in flight, and no capture starts while one is in       *)
(* flight or after one has been uploaded.                                  *)
C32_OneCaptureAtATime ==
    /\ [](capturesInFlight <= 1)
    /\ [][capturesInFlight' > capturesInFlight =>
             (capturesInFlight = 0 /\ ~state.capturedImage)]_vars

----------------------------------------------------------------------------
(* The renders of useFaceScan.  A state update made by a callback of the   *)
(* service is rendered later, and the effect of that render                *)
(* (useEffect(..., [state.livenessStage, state.livenessReady])) later      *)
(* still; frames may be processed in between.  render.deps are the         *)
(* dependencies of the last committed render, render.effect the effect of  *)
(* that render while it has not run.                                       *)

(* the callbacks of one processed frame run; nothing is rendered yet *)
RECURSIVE Handle(_, _, _)
Handle(w, cancelled, out) ==
    IF out = <<>> THEN w
    ELSE LET c == Head(out)
             w1 == IF c.cb = "onLivenessUpdate"
                   THEN IF cancelled THEN w
                        ELSE LivenessUpdate(w, c.stage, c.instruction)
                   ELSE OnCaptureTrigger(w, cancelled)
         IN  Handle(w1, cancelled, Tail(out))

(* the effects of a render in which the stage was livenessStage and the   *)
(* ready flag livenessReady: they read these two from the render, the refs *)
(* as they are when the effects run                                        *)
EffectsOf(w, livenessStage, livenessReady) ==
    [SyncEffect([w EXCEPT !.state.livenessStage = livenessStage,
                          !.state.livenessReady = livenessReady])
        EXCEPT !.state = w.state]

(* One tick of the service, as Tick, the hook's state updates pending *)
FrameBeforeRender(f) ==
    /\ service.tick /\ ~service.cancelled /\ service.faceMesh
    /\ VideoMounted(state)
    /\ livenessStateRef.centerHold < MaxCenterHold
    /\ LET r == ProcessResults(livenessStateRef, f, now)
           w == Handle([World EXCEPT !.ls = r.s], effect.cancelled, r.out)
           fired == Cardinality({i \in DOMAIN r.out : r.out[i].cb = "onCaptureTrigger"})
       IN  /\ Becomes(w)
           /\ emitted' = r.out
           /\ captureTriggers' = captureTriggers + fired
           /\ lastFaceAt' = IF f.face THEN now ELSE lastFaceAt
    /\ UNCHANGED <<service, effect, now, docTimers, script, captureCompletions>>
    /\ UNCHANGED <<docVars, otherVars, reloadPending>>

(* React renders the pending state and commits; the effects of the render *)
(* before have run by then.  Only a render that changes a dependency of    *)
(* the sync effect leaves an effect to run.                                *)
RenderCommits ==
    /\ render.effect = Null
    /\ <<state.livenessStage, state.livenessReady>> # render.deps
    /\ render' = [deps |-> <<state.livenessStage, state.livenessReady>>,
                  effect |-> Some(<<state.livenessStage, state.livenessReady>>)]
    /\ emitted' = <<>>
    /\ UNCHANGED <<livenessStateRef, refs, state, service, effect, showRetryButton,
                   capturesInFlight, now, captureTriggers, captureCompletions,
                   failureReports, docTimers,
                   lastFaceAt, script, reloadPending>>
    /\ UNCHANGED <<docVars, geom, loops, http>>

(* The effects of the last render run *)
SyncEffectRuns ==
    /\ render.effect # Null
    /\ Becomes(EffectsOf(World, render.effect[1][1], render.effect[1][2]))
    /\ render' = [render EXCEPT !.effect = Null]
    /\ emitted' = <<>>
    /\ UNCHANGED <<service, effect, now, captureTriggers, captureCompletions,
                   docTimers, lastFaceAt,
                   script, reloadPending>>
    /\ UNCHANGED <<docVars, geom, loops, http>>

NextRender ==
    \/ \E outcome \in InitOutcomes : StartFaceMesh(outcome)
    \/ \E f \in Frames : FrameBeforeRender(f)
    \/ RenderCommits
    \/ SyncEffectRuns

SpecRender == Init /\ [][NextRender]_vars

----------------------------------------------------------------------------
(* Properties of the stage *)

Forward(a, b) ==
    \/ a = "CENTER" /\ b = "LEFT"
    \/ a = "LEFT" /\ b = "RIGHT"
    \/ a = "RIGHT" /\ b = "DONE"

(* C33: the stage only moves CENTER -> LEFT -> RIGHT -> DONE, one step at  *)
(* a time and never backwards, and is never SNAP; this also when the sync  *)
(* effect of the hook writes to the shared liveness state between frames.  *)
C33_StageOnlyForward ==
    /\ [](stage # "SNAP")
    /\ [][stage' # stage => Forward(stage, stage')]_vars

(* What the code does: a frame moves the stage one step forward or leaves  *)
(* it; the sync effect writes the stage of the render it belongs to,       *)
(* whatever the stage has become since.                                    *)
C33_FramesForwardEffectRestores ==
    /\ [](stage \in {"CENTER", "LEFT", "RIGHT", "DONE"})
    /\ [][stage' # stage =>
            \/ Forward(stage, stage') /\ render' = render
            \/ /\ render.effect # Null /\ render'.effect = Null
               /\ stage' = render.effect[1][1]]_vars

C35_NoCenterOnceCompleted ==
    ~(stage = "CENTER" /\ livenessStateRef.livenessCompleted)

(* What the code does: Restart or Retry pressed after the RIGHT hold puts  *)
(* the stage back to CENTER through the sync effect and leaves             *)
(* livenessCompleted set; the service is stopped by then and the page      *)
(* reload that discards the state is scheduled.                            *)
C35_CenterCompletedOnlyBeforeReload ==
    (stage = "CENTER" /\ livenessStateRef.livenessCompleted) =>
        /\ reloadPending
        /\ service.cancelled
        /\ ~service.tick

UploadFailures == {"upload_failed", "already_registered"}
UploadErrors == {"Failed to upload face scan", "FACE_ALREADY_REGISTERED"}

(* C36: a capture whose upload fails is not treated as completed:          *)
(* onFaceCaptureComplete is not called, capturedImage is not set,          *)
(* allStepsCompleted is not set, no timer of the document step is set and  *)
(* the step is not shown, loading is false again and the instruction is    *)
(* the error.                                                              *)
C36_FailedUploadNotCompleted ==
    [][(\E outcome \in UploadFailures : CaptureDone(outcome)) =>
          /\ captureCompletions' = captureCompletions
          /\ state'.capturedImage = state.capturedImage
          /\ state'.allStepsCompleted => state.allStepsCompleted
          /\ docTimers' = docTimers
          /\ state'.showDocumentUpload => state.showDocumentUpload
          /\ ~state'.loading
          /\ state'.livenessInstruction \in UploadErrors]_vars

(* the only capture of the session has failed to upload *)
C36_Witness ==
    /\ captureTriggers = 1
    /\ capturesInFlight = 0
    /\ state.livenessInstruction = "Failed to upload face scan"
    /\ ~state.loading
    /\ ~state.capturedImage
    /\ ~state.allStepsCompleted
    /\ captureCompletions = 0
    /\ docTimers = 0
    /\ ~state.showDocumentUpload

----------------------------------------------------------------------------
(* Properties of the automatic document capture *)

CaptureResumes == docCapture # Null /\ docCapture' = Null

(* C37: onAutoCapture is emitted only by a processFrame call that ran the  *)
(* full detection and reported, through onDetection, detected = true,      *)
(* stable = true and quality > 0.5 for the corners it captures: a capture  *)
(* begins only on such a tick, and onAutoCapture is emitted only when a    *)
(* capture so begun resumes after its await, never by a skipped tick or a  *)
(* tick whose frame was reported not stable.                               *)
C37_AutoCaptureOnlyForStableDetection ==
    /\ [][CaptureStarts =>
             /\ Len(docOut') = 1
             /\ docOut'[1].cb = "onDetection"
             /\ docOut'[1].detected
             /\ docOut'[1].stable
             /\ docOut'[1].quality > decentQuality
             /\ docOut'[1].corners = docCapture'
             /\ docLog'[Len(docLog')] = "detect"]_vars
    /\ [][AutoCaptureEmitted =>
             /\ CaptureResumes
             /\ docOut' = <<AutoCapture>>]_vars

(* onAutoCapture has just been emitted for the capture begun on a stable   *)
(* detection                                                               *)
C37_Witness ==
    /\ doc # NoService
    /\ ~doc.cancelled
    /\ docOut = <<AutoCapture>>
    /\ doc.captureTriggered
    /\ doc.stableFrames >= captureFrames
    /\ docCapture = Null

TrackerCleared(s) ==
    /\ s.stableFrames = 0
    /\ s.consecutiveGoodFrames = 0
    /\ s.lastCorners = Null
    /\ s.cornerHistory = <<>>
    /\ s.smoothedCorners = Null

----------------------------------------------------------------------------
(* Properties of the retry policy *)

(* C39: when an attempt of retryRequest fails with a status in 400..499    *)
(* other than 429 the call is rejected with that error in the same step,   *)
(* with no wait set and no further attempt; a failure with status 429, a   *)
(* status of 500 or more, or no status sets the wait for the next attempt  *)
(* while attempts remain, and rejects the call only after the last one.    *)
C39_ClientErrorsNotRetried ==
    /\ [][\A o \in AttemptOutcomes :
            (RequestSettles(o) /\ http.retries > 0 /\ ~o.ok) =>
                IF o.status \in 400..499 /\ o.status # 429
                THEN /\ http'.settled = "rejected"
                     /\ http'.error = Some([status |-> o.status,
                                            attempt |-> http.attempts])
                     /\ http'.timer = Null
                     /\ http'.waits = http.waits
                     /\ ~http'.inFlight
                ELSE IF http.i < http.retries
                     THEN /\ http'.settled = "pending"
                          /\ http'.timer = Some(RetryWait(http.delay, http.i))
                     ELSE http'.settled = "rejected"]_vars
    /\ [](http.call = "request" /\ http.settled = "rejected" =>
            ~http.inFlight /\ http.timer = Null)

(* a request with retries left was rejected by its second attempt, which   *)
(* failed with status 499, after the first, which failed with 429, had     *)
(* been retried after one wait                                             *)
C39_Witness ==
    /\ http.call = "request"
    /\ http.retries = defaultRetries
    /\ http.settled = "rejected"
    /\ http.attempts = 2
    /\ http.outcomes[1].status = 429
    /\ http.outcomes[2].status = 499
    /\ http.waits = <<http.delay>>
    /\ http.timer = Null
    /\ http.error = Some([status |-> 499, attempt |-> 2])

====
